---------------------------- MODULE Spec2Model ----------------------------
(***************************************************************************)
(* A model of the RISCV-gpu simulation harness (sim/simlib/sim.hpp) and of *)
(* the assembler's number parser (aslib parser_utils): the instruction and *)
(* data memory models that answer the DUT's per-channel requests, the      *)
(* simulate() loop that drives the Verilated DUT, and parse_num.           *)
(*                                                                         *)
(* IData (uint32_t) is scaled down to the range 0..MaxWord; CData bit      *)
(* masks are modelled as the set of bit positions that are 1.              *)
(***************************************************************************)
EXTENDS Integers, Sequences, FiniteSets, TLC

\* ------------------------------------------------------------------ bounds

\* Number of memory channels (the template parameter num_channels).
NumChannels == 2

\* Largest value of the scaled-down IData word.
MaxWord == 2

\* Number of process() calls a memory test bench makes.
MaxCalls == 2

\* Number of push_data / push_instruction calls a test bench makes first.
MaxPreload == 1

\* Number of process() calls a longer, one-port-per-cycle test makes.
MaxSeqCalls == 3

\* Largest max_num_cycles simulate() is called with.
MaxCycles == 2

\* Longest free text handed to parse_num.
MaxLen == 4

\* Width of int32_t, scaled: values are INT_MIN .. INT_MAX.
IntBits == 5
MaxDirect == 1
MaxPushCalls == 1
MaxReg == 2
MaxName == 3
MaxRegister == 7
THREADS_PER_WARP == 2
DATA_WIDTH == 2
MaxRd == 4
MaxFetchCycles == 6
MaxEdges == 2
ZERO_REG == 0
THREAD_ID_REG == 1
BLOCK_ID_REG == 2
BLOCK_SIZE_REG == 3
MaxImm == 2

Channels == 0 .. (NumChannels - 1)

\* IData: every address and every data word.
Word == 0 .. MaxWord

\* static constexpr IData MAX_SIZE = std::numeric_limits<IData>::max();
MAX_SIZE == MaxWord

\* The null pointer (no DUT signal).
NULL == -1

\* ---------------------------------------------------------------- state

VARIABLES
    dut,              \* the Vgpu object: its public signals
    instruction_mem,  \* the InstructionMemory object
    data_mem,         \* the DataMemory object
    crashed,          \* the process has been killed by a fault
    bench,            \* position of the memory test bench
    sim,              \* position of simulate(): pc, cycle, max_num_cycles, ret
    hist,             \* history of a simulate() run (observation only)
    num,              \* a parse_num call: its argument view and its result
    line,             \* a parse_line call: its tokens and its result
    reg,              \* a str_to_reg call: its argument and its result
    rf,               \* the reg_file module: its inputs and its registers
    fetcher           \* the fetcher module: its registers and what it saw

vars ==
    << dut, instruction_mem, data_mem, crashed, bench, sim, hist, num, line, reg, rf,
       fetcher >>

\* -------------------------------------------------------------- bit masks

\* A set_bit that can set a bit and never clears one.
set_bit_sticky(signal, bit, value) ==
    IF value THEN signal \cup {bit} ELSE signal

\* constexpr void set_bit(CData& signal, int bit, bool value)
set_bit(signal, bit, value) ==
    IF value THEN signal \cup {bit} ELSE signal \ {bit}

\* constexpr bool get_bit(CData signal, int bit); also `signal & (1 << i)`
get_bit(signal, bit) == bit \in signal

\* ----------------------------------------------------- std::map / operator[]

\* A map is a function whose domain is the set of keys it holds.
EmptyMap == [k \in {} |-> 0]

\* memory[k] = v
MapStore(m, k, v) == [x \in (DOMAIN m) \cup {k} |-> IF x = k THEN v ELSE m[x]]

\* The value memory[k] yields: a missing key is value-initialised to 0.
MapGet(m, k) == IF k \in DOMAIN m THEN m[k] ELSE 0

\* The map after memory[k] was evaluated: a missing key has been inserted.
MapTouch(m, k) == IF k \in DOMAIN m THEN m ELSE MapStore(m, k, 0)

\* ------------------------------------------------------------------- Vgpu

\* A freshly constructed Vgpu: every signal is 0.
FreshDut ==
    [ clk                          |-> 0,
      execution_start              |-> 0,
      execution_done               |-> 0,
      kernel_config                |-> [s \in 0 .. 3 |-> 0],
      instruction_mem_read_valid   |-> {},
      instruction_mem_read_address |-> [i \in Channels |-> 0],
      instruction_mem_read_ready   |-> {},
      instruction_mem_read_data    |-> [i \in Channels |-> 0],
      data_mem_read_valid          |-> {},
      data_mem_read_address        |-> [i \in Channels |-> 0],
      data_mem_read_ready          |-> {},
      data_mem_read_data           |-> [i \in Channels |-> 0],
      data_mem_write_valid         |-> {},
      data_mem_write_address       |-> [i \in Channels |-> 0],
      data_mem_write_data          |-> [i \in Channels |-> 0],
      data_mem_write_ready         |-> {} ]

\* make_instruction_memory<num_channels>(&dut)
make_instruction_memory ==
    [ memory    |-> EmptyMap,
      stack_ptr |-> 0 ]

\* make_data_memory<num_channels>(&dut): data_mem_read_data[i] points at the
\* DUT's data_mem_read_data[i]; a pointer is the index of the signal it
\* designates, or NULL.
make_data_memory ==
    [ memory             |-> EmptyMap,
      stack_ptr          |-> 0,
      data_mem_read_data |-> [i \in Channels |-> i] ]

\* ------------------------------------------------ InstructionMemory::process

RECURSIVE InstructionMemory_loop(_, _, _)
InstructionMemory_loop(i, im, d) ==
    IF i >= NumChannels
    THEN [instruction_mem |-> im, dut |-> d]
    ELSE IF get_bit(d.instruction_mem_read_valid, i)
         THEN LET addr == d.instruction_mem_read_address[i] IN
              IF addr < MAX_SIZE
              THEN InstructionMemory_loop(i + 1,
                       [im EXCEPT !.memory = MapTouch(@, addr)],
                       [d EXCEPT
                          !.instruction_mem_read_data[i] = MapGet(im.memory, addr),
                          !.instruction_mem_read_ready = set_bit(@, i, TRUE)])
              ELSE InstructionMemory_loop(i + 1, im,
                       [d EXCEPT
                          !.instruction_mem_read_data[i] = 0,
                          !.instruction_mem_read_ready = set_bit(@, i, TRUE)])
         ELSE InstructionMemory_loop(i + 1, im,
                  [d EXCEPT !.instruction_mem_read_ready = set_bit(@, i, FALSE)])

\* void InstructionMemory::process(): the object and the DUT after the call.
InstructionMemory_process(im, d) == InstructionMemory_loop(0, im, d)

\* void InstructionMemory::load_instruction(IData addr, IData instruction)
load_instruction(im, addr, instruction) ==
    IF addr < MAX_SIZE THEN [im EXCEPT !.memory = MapStore(@, addr, instruction)]
    ELSE im

\* memory[addr] = value through operator[] of either memory.
index_write(mem, addr, value) == [mem EXCEPT !.memory = MapStore(@, addr, value)]

\* void InstructionMemory::push_instruction(InstructionBits instruction)
push_instruction(im, instruction) ==
    [im EXCEPT !.memory = MapStore(@, im.stack_ptr, instruction),
               !.stack_ptr = (@ + 1) % (MaxWord + 1)]

\* ------------------------------------------------------ DataMemory::process

\* A write loop in which the first channel to write an address keeps it.
RECURSIVE DataMemory_writes_keep_first(_, _, _)
DataMemory_writes_keep_first(i, dm, d) ==
    IF i >= NumChannels
    THEN [data_mem |-> dm, dut |-> d]
    ELSE IF get_bit(d.data_mem_write_valid, i)
         THEN LET addr == d.data_mem_write_address[i]
                  taken == \E k \in 0 .. i - 1 :
                              /\ get_bit(d.data_mem_write_valid, k)
                              /\ d.data_mem_write_address[k] = addr
              IN
              DataMemory_writes_keep_first(i + 1,
                  IF addr < MAX_SIZE /\ ~taken
                  THEN [dm EXCEPT !.memory = MapStore(@, addr, d.data_mem_write_data[i])]
                  ELSE dm,
                  [d EXCEPT !.data_mem_write_ready = set_bit(@, i, TRUE)])
         ELSE DataMemory_writes_keep_first(i + 1, dm,
                  [d EXCEPT !.data_mem_write_ready = set_bit(@, i, FALSE)])

\* The write loop: channel i upward, so a later channel overwrites an earlier
\* one that wrote the same address.
RECURSIVE DataMemory_writes(_, _, _)
DataMemory_writes(i, dm, d) ==
    IF i >= NumChannels
    THEN [data_mem |-> dm, dut |-> d]
    ELSE IF get_bit(d.data_mem_write_valid, i)
         THEN LET addr == d.data_mem_write_address[i] IN
              DataMemory_writes(i + 1,
                  IF addr < MAX_SIZE
                  THEN [dm EXCEPT !.memory = MapStore(@, addr, d.data_mem_write_data[i])]
                  ELSE dm,
                  [d EXCEPT !.data_mem_write_ready = set_bit(@, i, TRUE)])
         ELSE DataMemory_writes(i + 1, dm,
                  [d EXCEPT !.data_mem_write_ready = set_bit(@, i, FALSE)])

\* The read loop.  An out-of-range read executes `data_mem_read_data[i] = 0;`,
\* which assigns the pointer.  A later in-range read on that channel stores
\* through the null pointer: undefined behaviour, whose outcomes are a fault
\* that kills the process at that store, or a store that reaches no DUT signal
\* and lets the loop go on.  The result is the set of possible outcomes.
RECURSIVE DataMemory_reads(_, _, _)
DataMemory_reads(i, dm, d) ==
    IF i >= NumChannels
    THEN {[data_mem |-> dm, dut |-> d, crashed |-> FALSE]}
    ELSE IF get_bit(d.data_mem_read_valid, i)
         THEN LET addr == d.data_mem_read_address[i] IN
              IF addr < MAX_SIZE
              THEN LET p   == dm.data_mem_read_data[i]
                       dm2 == [dm EXCEPT !.memory = MapTouch(@, addr)]
                       v   == MapGet(dm.memory, addr)
                   IN IF p = NULL
                      THEN {[data_mem |-> dm2, dut |-> d, crashed |-> TRUE]}
                           \cup DataMemory_reads(i + 1, dm2,
                                   [d EXCEPT !.data_mem_read_ready = set_bit(@, i, TRUE)])
                      ELSE DataMemory_reads(i + 1, dm2,
                               [d EXCEPT !.data_mem_read_data[p] = v,
                                         !.data_mem_read_ready = set_bit(@, i, TRUE)])
              ELSE DataMemory_reads(i + 1,
                       [dm EXCEPT !.data_mem_read_data[i] = NULL],
                       [d EXCEPT !.data_mem_read_ready = set_bit(@, i, TRUE)])
         ELSE DataMemory_reads(i + 1, dm,
                  [d EXCEPT !.data_mem_read_ready = set_bit(@, i, FALSE)])

\* void DataMemory::process(): writes first, then reads; the set of outcomes.
DataMemory_process(dm, d) ==
    LET w == DataMemory_writes(0, dm, d)
    IN  DataMemory_reads(0, w.data_mem, w.dut)

\* A push_data that appends after the cells the memory holds.
push_data_at_size(dm, data) ==
    [dm EXCEPT !.memory = MapStore(@, Cardinality(DOMAIN dm.memory), data),
               !.stack_ptr = (@ + 1) % (MaxWord + 1)]

\* void DataMemory::push_data(IData data)
push_data(dm, data) ==
    [dm EXCEPT !.memory = MapStore(@, dm.stack_ptr, data),
               !.stack_ptr = (@ + 1) % (MaxWord + 1)]

\* ------------------------------------------------- the DUT's memory requests

\* Sets of at most k channels.
PortSets(k) == {S \in SUBSET Channels : Cardinality(S) <= k}

\* Read requests on at most k channels with addresses in A: the valid mask and
\* the addresses.  The address of an idle channel is never read by process();
\* it is driven 0.
ReadRequests(k, A) ==
    UNION { { [ valid   |-> S,
                address |-> [i \in Channels |-> IF i \in S THEN f[i] ELSE 0] ]
              : f \in [S -> A] }
            : S \in PortSets(k) }

\* Write requests on at most k channels: valid mask, addresses in A, data in D.
WriteRequests(k, A, D) ==
    UNION { { [ valid   |-> S,
                address |-> [i \in Channels |-> IF i \in S THEN f[i][1] ELSE 0],
                data    |-> [i \in Channels |-> IF i \in S THEN f[i][2] ELSE 0] ]
              : f \in [S -> A \X D] }
            : S \in PortSets(k) }

\* What the DUT presents to the instruction memory in a bench cycle.
InstructionRequests == ReadRequests(NumChannels, Word)

\* What the DUT presents to the data memory in a bench cycle: any two ports,
\* or two writers and a reader that all name one address.
DataRequests ==
    { q \in [read : ReadRequests(2, Word), write : WriteRequests(2, Word, Word)] :
        \/ Cardinality(q.read.valid) + Cardinality(q.write.valid) <= 2
        \/ /\ Cardinality(q.read.valid) = 1
           /\ Cardinality(q.write.valid) = 2
           /\ \E a \in Word :
                /\ \A i \in q.read.valid  : q.read.address[i] = a
                /\ \A i \in q.write.valid : q.write.address[i] = a }

\* The DUT drives its instruction-memory request signals.
DriveInstruction(d, r) ==
    [d EXCEPT !.instruction_mem_read_valid   = r.valid,
              !.instruction_mem_read_address = r.address]

\* The DUT drives its data-memory request signals.
DriveData(d, q) ==
    [d EXCEPT !.data_mem_read_valid    = q.read.valid,
              !.data_mem_read_address  = q.read.address,
              !.data_mem_write_valid   = q.write.valid,
              !.data_mem_write_address = q.write.address,
              !.data_mem_write_data    = q.write.data]

\* -------------------------------------------------------------- parse_num

\* std::numeric_limits<int32_t>::max() and min(), at the scaled width.
INT_MAX == 2 ^ (IntBits - 1) - 1

INT_MIN == - (2 ^ (IntBits - 1))

\* The value of each character that is a digit in some base up to 16.
DigitTable ==
    ("0" :> 0) @@ ("1" :> 1) @@ ("2" :> 2) @@ ("3" :> 3) @@ ("4" :> 4) @@
    ("5" :> 5) @@ ("6" :> 6) @@ ("7" :> 7) @@ ("8" :> 8) @@ ("9" :> 9) @@
    ("a" :> 10) @@ ("b" :> 11) @@ ("c" :> 12) @@ ("d" :> 13) @@ ("e" :> 14) @@
    ("f" :> 15) @@ ("A" :> 10) @@ ("B" :> 11) @@ ("C" :> 12) @@ ("D" :> 13) @@
    ("E" :> 14) @@ ("F" :> 15)

\* bool is_numeric(char c, int base): c is a digit of the base.
is_numeric(c, base) == c \in DOMAIN DigitTable /\ DigitTable[c] < base

\* source.remove_prefix(n)
remove_prefix(source, n) == SubSeq(source, n + 1, Len(source))

\* The value of a digit string in a base, as an unbounded integer.
RECURSIVE DigitsValue(_, _)
DigitsValue(text, base) ==
    IF text = << >> THEN 0
    ELSE DigitsValue(SubSeq(text, 1, Len(text) - 1), base) * base
            + DigitTable[text[Len(text)]]

\* The number of leading characters of text that are digits of the base.
RECURSIVE DigitPrefix(_, _)
DigitPrefix(text, base) ==
    IF text # << >> /\ text[1] \in DOMAIN DigitTable /\ DigitTable[text[1]] < base
    THEN 1 + DigitPrefix(Tail(text), base)
    ELSE 0

\* A from_chars that keeps the low IntBits bits of a value too large.
from_chars_wrapping(range, base) ==
    LET n == DigitPrefix(range, base)
        v == DigitsValue(SubSeq(range, 1, n), base) % (2 ^ IntBits)
    IN  IF n = 0 THEN [ec |-> "invalid_argument", ptr |-> 0, result |-> 0]
        ELSE [ec |-> "", ptr |-> n,
              result |-> IF v > 2 ^ (IntBits - 1) - 1 THEN v - 2 ^ IntBits ELSE v]

\* std::from_chars(begin, end, result, base) into an int32_t, for a range that
\* holds no sign: no digit is invalid_argument, a value above INT_MAX is
\* result_out_of_range, otherwise the value and the count of characters read.
from_chars(range, base) ==
    LET n == DigitPrefix(range, base)
        v == DigitsValue(SubSeq(range, 1, n), base)
    IN  IF n = 0 THEN [ec |-> "invalid_argument", ptr |-> 0, result |-> 0]
        ELSE IF v > INT_MAX THEN [ec |-> "result_out_of_range", ptr |-> n, result |-> 0]
        ELSE [ec |-> "", ptr |-> n, result |-> v]

\* The while loop of parse_integral from index i: it ends at the first
\* character that is no hex digit (bad = FALSE) or returns at the first hex
\* digit that is no digit of the base (bad = TRUE).
RECURSIVE parse_integral_scan(_, _, _)
parse_integral_scan(source, base, i) ==
    IF i < Len(source) /\ is_numeric(source[i + 1], 16)
    THEN IF ~is_numeric(source[i + 1], base)
         THEN [bad |-> TRUE, i |-> i]
         ELSE parse_integral_scan(source, base, i + 1)
    ELSE [bad |-> FALSE, i |-> i]

\* A std::unexpected result; source is the view as the call leaves it.
NumError(error, failing_part, digit, base, source) ==
    [ ok |-> FALSE, value |-> 0, error |-> error, failing_part |-> failing_part,
      digit |-> digit, base |-> base, source |-> source ]

\* A value result.
NumValue(value, base, source) ==
    [ ok |-> TRUE, value |-> value, error |-> "", failing_part |-> << >>,
      digit |-> "", base |-> base, source |-> source ]

\* auto parse_integral = [&](int base) -> std::expected<word_type, sim::Error>
parse_integral(source, base, is_negative) ==
    LET scan == parse_integral_scan(source, base, 0) IN
    IF scan.bad
    THEN NumError("Invalid digit", SubSeq(source, 1, scan.i + 1),
                  source[scan.i + 1], base, remove_prefix(source, scan.i))
    ELSE LET fc == from_chars(SubSeq(source, 1, scan.i), base) IN
         IF fc.ec # ""
         THEN NumError(fc.ec, SubSeq(source, 1, scan.i), "", base, source)
         ELSE NumValue(IF is_negative THEN - fc.result ELSE fc.result, base,
                       remove_prefix(source, fc.ptr))

\* A parse_num that reads a leading 0 as a decimal digit.
parse_num_no_octal(source) ==
    IF source = << >>
    THEN NumError("Expected a number, found ''", << >>, "", 0, source)
    ELSE LET is_negative == source[1] = "-"
             s == IF is_negative THEN remove_prefix(source, 1) ELSE source
         IN  IF s = << >>
             THEN NumError("Expected a number, found '-'", << >>, "", 0, s)
             ELSE IF s[1] = "0" /\ Len(s) > 1 /\ s[2] \in {"x", "X"}
                  THEN parse_integral(remove_prefix(s, 2), 16, is_negative)
                  ELSE IF s[1] = "0" /\ Len(s) > 1 /\ s[2] \in {"b", "B"}
                  THEN parse_integral(remove_prefix(s, 2), 2, is_negative)
                  ELSE parse_integral(s, 10, is_negative)

\* auto parse_num(std::string_view &source) -> std::expected<word_type, sim::Error>
parse_num(source) ==
    IF source = << >>
    THEN NumError("Expected a number, found ''", << >>, "", 0, source)
    ELSE LET is_negative == source[1] = "-"
             s == IF is_negative THEN remove_prefix(source, 1) ELSE source
         IN  IF s = << >>
             THEN NumError("Expected a number, found '-'", << >>, "", 0, s)
             ELSE IF s[1] = "0" /\ Len(s) > 1
                  THEN CASE s[2] \in {"x", "X"} ->
                              parse_integral(remove_prefix(s, 2), 16, is_negative)
                         [] s[2] \in {"b", "B"} ->
                              parse_integral(remove_prefix(s, 2), 2, is_negative)
                         [] OTHER ->
                              parse_integral(s, 8, is_negative)
                  ELSE parse_integral(s, 10, is_negative)

\* No parse_num call is being looked at.
NumIdle ==
    [ pc |-> "none", given |-> << >>, n |-> 0, base |-> 0,
      result |-> NumValue(0, 0, << >>) ]

\* No parse_line call is being looked at.
LineIdle == [pc |-> "none"]

\* No str_to_reg call is being looked at.
RegIdle == [pc |-> "none"]

\* The reg_file module is not being looked at.
RegFileIdle == [pc |-> "none"]

\* The fetcher module is not being looked at.
FetcherIdle == [pc |-> "none"]

\* simulate() has not been called.
SimIdle == [pc |-> "setup", cycle |-> 0, max_num_cycles |-> 0, ret |-> "none"]

\* Nothing has been observed yet.
NoHistory ==
    [ config       |-> << >>,   \* arguments of the last set_kernel_config call
      log          |-> << >>,   \* steps of the current loop iteration, in order
      n_inst       |-> 0,       \* instruction_mem.process() calls so far
      n_data       |-> 0,       \* data_mem.process() calls so far
      n_pulse      |-> 0,       \* clock pulses (tick calls) so far
      done_settles |-> {},      \* cycles whose first settle showed execution_done
      req_seen     |-> << >>,   \* requests instruction_mem.process() saw
      same_req     |-> TRUE,    \* data_mem.process() saw those same requests
      mem_serviced |-> EmptyMap \* data memory after the last serviced cycle
    ]

\* ------------------------------------------------------ memory test bench

\* The bench before its first step.  written_inst and written_data record the
\* addresses a push or a DUT write has stored to (observation only).
BenchIdle ==
    [ preloads     |-> 0,
      calls        |-> 0,
      last         |-> "none",
      written_inst |-> {},
      written_data |-> {} ]

\* The in-range addresses the write request w stores to.
WrittenBy(w) == {a \in {w.address[i] : i \in w.valid} : a < MAX_SIZE}

\* A test: a fresh DUT and fresh memories (as every TEST_CASE builds them),
\* some pushes, then bench cycles in which the DUT presents a request and one
\* memory's process() is called.
InitBench ==
    /\ dut = FreshDut
    /\ fetcher = FetcherIdle
    /\ instruction_mem = make_instruction_memory
    /\ data_mem = make_data_memory
    /\ crashed = FALSE
    /\ bench = BenchIdle
    /\ sim = SimIdle
    /\ hist = NoHistory
    /\ num = NumIdle
    /\ line = LineIdle
    /\ reg = RegIdle
    /\ rf = RegFileIdle

\* data_memory.push_data(data), before the first cycle.
BenchPushData ==
    /\ ~crashed
    /\ bench.calls = 0
    /\ bench.preloads < MaxPreload
    /\ \E data \in Word : data_mem' = push_data(data_mem, data)
    /\ bench' = [bench EXCEPT !.preloads = @ + 1, !.last = "push_data",
                              !.written_data = @ \cup {data_mem.stack_ptr}]
    /\ UNCHANGED << fetcher, line, reg, rf, num, dut, instruction_mem, crashed, sim, hist >>

\* instruction_memory.push_instruction(instruction), before the first cycle.
BenchPushInstruction ==
    /\ ~crashed
    /\ bench.calls = 0
    /\ bench.preloads < MaxPreload
    /\ \E instruction \in Word :
          instruction_mem' = push_instruction(instruction_mem, instruction)
    /\ bench' = [bench EXCEPT !.preloads = @ + 1, !.last = "push_instruction",
                              !.written_inst = @ \cup {instruction_mem.stack_ptr}]
    /\ UNCHANGED << fetcher, line, reg, rf, num, dut, data_mem, crashed, sim, hist >>

\* The DUT presents a request of R and instruction_mem.process() is called.
InstructionCycle(R, limit) ==
    /\ ~crashed
    /\ bench.calls < limit
    /\ \E r \in R :
          LET out == InstructionMemory_process(instruction_mem,
                                               DriveInstruction(dut, r))
          IN  /\ instruction_mem' = out.instruction_mem
              /\ dut' = out.dut
    /\ bench' = [bench EXCEPT !.calls = @ + 1, !.last = "instruction_mem"]
    /\ UNCHANGED << fetcher, line, reg, rf, num, data_mem, crashed, sim, hist >>

\* The DUT presents a request of Q and data_mem.process() is called.
DataCycle(Q, limit) ==
    /\ ~crashed
    /\ bench.calls < limit
    /\ \E q \in Q :
          /\ \E out \in DataMemory_process(data_mem, DriveData(dut, q)) :
                /\ data_mem' = out.data_mem
                /\ dut' = out.dut
                /\ crashed' = out.crashed
          /\ bench' = [bench EXCEPT !.calls = @ + 1, !.last = "data_mem",
                                    !.written_data = @ \cup WrittenBy(q.write)]
    /\ UNCHANGED << fetcher, line, reg, rf, num, instruction_mem, sim, hist >>

\* Short tests with requests on several ports at once.
BenchInstructionCycle == InstructionCycle(InstructionRequests, MaxCalls)

BenchDataCycle == DataCycle(DataRequests, MaxCalls)

NextBench ==
    \/ BenchPushData
    \/ BenchPushInstruction
    \/ BenchInstructionCycle
    \/ BenchDataCycle

SpecBench == InitBench /\ [][NextBench]_vars

\* Longer tests with one request port active per cycle.
SeqInstructionRequests == ReadRequests(1, Word)

SeqDataRequests ==
    { q \in [read : ReadRequests(1, Word), write : WriteRequests(1, Word, Word)] :
        Cardinality(q.read.valid) + Cardinality(q.write.valid) <= 1 }

SeqInstructionCycle == InstructionCycle(SeqInstructionRequests, MaxSeqCalls)

SeqDataCycle == DataCycle(SeqDataRequests, MaxSeqCalls)

NextSeq ==
    \/ BenchPushData
    \/ BenchPushInstruction
    \/ SeqInstructionCycle
    \/ SeqDataCycle

SpecSeq == InitBench /\ [][NextSeq]_vars

\* ------------------------------------------------------------- Vgpu::eval

\* The channel, the addresses and the data the DUT uses inside simulate(): one
\* channel, one address in range and the one out of range.
SimChannels == {0}

SimAddresses == {0, MAX_SIZE}

SimData == {1}

\* The outputs the DUT can show after an evaluation inside simulate(): the
\* done flag and at most one active request port.
DutOutputs ==
    { o \in [ inst : ReadRequests(1, SimAddresses),
              data : [read  : ReadRequests(1, SimAddresses),
                      write : WriteRequests(1, SimAddresses, SimData)],
              done : 0 .. 1 ] :
        /\ o.inst.valid \cup o.data.read.valid \cup o.data.write.valid \subseteq SimChannels
        /\ Cardinality(o.inst.valid) + Cardinality(o.data.read.valid)
              + Cardinality(o.data.write.valid) <= 1 }

\* top.eval(): the DUT is opaque, so an evaluation may leave any outputs; it
\* never changes the DUT's inputs (clk, execution_start, kernel_config, the
\* ready masks and the read data).
eval(d) ==
    { [DriveData(DriveInstruction(d, o.inst), o.data)
          EXCEPT !.execution_done = o.done] : o \in DutOutputs }

\* The request signals the memories read.
Requests(d) ==
    << d.instruction_mem_read_valid, d.instruction_mem_read_address,
       d.data_mem_read_valid, d.data_mem_read_address,
       d.data_mem_write_valid, d.data_mem_write_address,
       d.data_mem_write_data >>

\* ------------------------------------------------------ set_kernel_config

\* Arguments a test passes: <<base_instructions_address, base_data_address,
\* num_blocks, num_warps_per_block>>.
ConfigArgs == { <<0, 0, 1, 1>>, <<1, 2, 0, 1>> }

\* A set_kernel_config that fills the slots in argument order.
set_kernel_config_in_order(top, base_instructions_address, base_data_address, num_blocks, num_warps_per_block) ==
    [top EXCEPT !.kernel_config =
        [s \in 0 .. 3 |->
            CASE s = 0 -> base_instructions_address
              [] s = 1 -> base_data_address
              [] s = 2 -> num_blocks
              [] s = 3 -> num_warps_per_block]]

\* constexpr void set_kernel_config(Vgpu& top, IData base_instructions_address,
\*     IData base_data_address, IData num_blocks, IData num_warps_per_block)
set_kernel_config(top, base_instructions_address, base_data_address, num_blocks, num_warps_per_block) ==
    [top EXCEPT !.kernel_config =
        [s \in 0 .. 3 |->
            CASE s = 3 -> base_instructions_address
              [] s = 2 -> base_data_address
              [] s = 1 -> num_blocks
              [] s = 0 -> num_warps_per_block]]

\* --------------------------------------------------------------- simulate

\* A loop condition that is off by one.
simulate_continue_inclusive(cycle, max_num_cycles) == cycle <= max_num_cycles

\* for (auto cycle = 0u; cycle < max_num_cycles; ++cycle)
simulate_continue(cycle, max_num_cycles) == cycle < max_num_cycles

\* A done test that reads the start flag.
simulate_done_start(top) == top.execution_start # 0

\* if (top.execution_done) return true;
simulate_done(top) == top.execution_done # 0

\* A loop body that services the data memory before the instruction memory.
simulate_after_swapped(pc) ==
    CASE pc = "loop"            -> "data_mem"
      [] pc = "data_mem"        -> "instruction_mem"
      [] pc = "instruction_mem" -> "settle"
      [] pc = "settle"          -> "tick_low"
      [] pc = "tick_low"        -> "tick_high"
      [] pc = "tick_high"       -> "loop"

\* The statement of the loop body that follows statement pc.
simulate_after(pc) ==
    CASE pc = "loop"            -> "instruction_mem"
      [] pc = "instruction_mem" -> "data_mem"
      [] pc = "data_mem"        -> "settle"
      [] pc = "settle"          -> "tick_low"
      [] pc = "tick_low"        -> "tick_high"
      [] pc = "tick_high"       -> "loop"

\* A test starts from a fresh DUT and fresh memories.
InitSim ==
    /\ dut = FreshDut
    /\ fetcher = FetcherIdle
    /\ instruction_mem = make_instruction_memory
    /\ data_mem = make_data_memory
    /\ crashed = FALSE
    /\ bench = BenchIdle
    /\ sim = SimIdle
    /\ hist = NoHistory
    /\ num = NumIdle
    /\ line = LineIdle
    /\ reg = RegIdle
    /\ rf = RegFileIdle

\* sim::set_kernel_config(gpu, ...), before the run.
CallSetKernelConfig ==
    /\ sim.pc = "setup"
    /\ hist.config = << >>
    /\ \E a \in ConfigArgs :
          /\ dut' = set_kernel_config(dut, a[1], a[2], a[3], a[4])
          /\ hist' = [hist EXCEPT !.config = a]
    /\ UNCHANGED << fetcher, line, reg, rf, num, instruction_mem, data_mem, crashed, bench, sim >>

\* simulate(top, instruction_mem, data_mem, max_num_cycles) is entered:
\* top.execution_start = 1; cycle = 0.
CallSimulate ==
    /\ sim.pc = "setup"
    /\ \E m \in 0 .. MaxCycles :
          sim' = [pc |-> "loop", cycle |-> 0, max_num_cycles |-> m, ret |-> "none"]
    /\ dut' = [dut EXCEPT !.execution_start = 1]
    /\ hist' = [hist EXCEPT !.mem_serviced = data_mem.memory]
    /\ UNCHANGED << fetcher, line, reg, rf, num, instruction_mem, data_mem, crashed, bench >>

\* The loop is entered for another cycle: top.eval(), then the done test.
SimSettle ==
    /\ ~crashed
    /\ sim.pc = "loop"
    /\ simulate_continue(sim.cycle, sim.max_num_cycles)
    /\ \E d \in eval(dut) :
          /\ dut' = d
          /\ hist' = [hist EXCEPT
                        !.log = << "eval" >>,
                        !.done_settles =
                            IF d.execution_done # 0 THEN @ \cup {sim.cycle} ELSE @]
          /\ sim' = IF simulate_done(d)
                    THEN [sim EXCEPT !.pc = "returned", !.ret = "true"]
                    ELSE [sim EXCEPT !.pc = simulate_after("loop")]
    /\ UNCHANGED << fetcher, line, reg, rf, num, instruction_mem, data_mem, crashed, bench >>

\* The loop is left: return false.
SimTimeOut ==
    /\ ~crashed
    /\ sim.pc = "loop"
    /\ ~simulate_continue(sim.cycle, sim.max_num_cycles)
    /\ sim' = [sim EXCEPT !.pc = "returned", !.ret = "false"]
    /\ UNCHANGED << fetcher, line, reg, rf, num, dut, instruction_mem, data_mem, crashed, bench, hist >>

\* instruction_mem.process();
SimInstructionMem ==
    /\ ~crashed
    /\ sim.pc = "instruction_mem"
    /\ LET out == InstructionMemory_process(instruction_mem, dut)
       IN  /\ instruction_mem' = out.instruction_mem
           /\ dut' = out.dut
    /\ hist' = [hist EXCEPT !.log = Append(@, "instruction_mem.process"),
                            !.n_inst = @ + 1,
                            !.req_seen = Requests(dut)]
    /\ sim' = [sim EXCEPT !.pc = simulate_after("instruction_mem")]
    /\ UNCHANGED << fetcher, line, reg, rf, num, data_mem, crashed, bench >>

\* data_mem.process();
SimDataMem ==
    /\ ~crashed
    /\ sim.pc = "data_mem"
    /\ \E out \in DataMemory_process(data_mem, dut) :
          /\ data_mem' = out.data_mem
          /\ dut' = out.dut
          /\ crashed' = out.crashed
          /\ hist' = [hist EXCEPT !.log = Append(@, "data_mem.process"),
                                  !.n_data = @ + 1,
                                  !.same_req = (hist.req_seen = Requests(dut)),
                                  !.req_seen = << >>,
                                  !.mem_serviced = out.data_mem.memory]
          /\ sim' = IF out.crashed THEN sim
                    ELSE [sim EXCEPT !.pc = simulate_after("data_mem")]
    /\ UNCHANGED << fetcher, line, reg, rf, num, instruction_mem, bench >>

\* top.eval(); after the memories drove their answers.
SimSettleInputs ==
    /\ ~crashed
    /\ sim.pc = "settle"
    /\ \E d \in eval(dut) : dut' = d
    /\ hist' = [hist EXCEPT !.log = Append(@, "eval")]
    /\ sim' = [sim EXCEPT !.pc = simulate_after("settle")]
    /\ UNCHANGED << fetcher, line, reg, rf, num, instruction_mem, data_mem, crashed, bench >>

\* tick(top), first half: top.clk = 0; top.eval();
SimTickLow ==
    /\ ~crashed
    /\ sim.pc = "tick_low"
    /\ \E d \in eval([dut EXCEPT !.clk = 0]) : dut' = d
    /\ hist' = [hist EXCEPT !.log = @ \o << "clk=0", "eval" >>]
    /\ sim' = [sim EXCEPT !.pc = simulate_after("tick_low")]
    /\ UNCHANGED << fetcher, line, reg, rf, num, instruction_mem, data_mem, crashed, bench >>

\* tick(top), second half: top.clk = 1; top.eval(); then ++cycle.
SimTickHigh ==
    /\ ~crashed
    /\ sim.pc = "tick_high"
    /\ \E d \in eval([dut EXCEPT !.clk = 1]) : dut' = d
    /\ hist' = [hist EXCEPT !.log = @ \o << "clk=1", "eval" >>,
                            !.n_pulse = @ + 1]
    /\ sim' = [sim EXCEPT !.pc = simulate_after("tick_high"), !.cycle = @ + 1]
    /\ UNCHANGED << fetcher, line, reg, rf, num, instruction_mem, data_mem, crashed, bench >>

Next ==
    \/ CallSetKernelConfig
    \/ CallSimulate
    \/ SimSettle
    \/ SimTimeOut
    \/ SimInstructionMem
    \/ SimDataMem
    \/ SimSettleInputs
    \/ SimTickLow
    \/ SimTickHigh

Spec == InitSim /\ [][Next]_vars

\* ------------------------------------------------------ claims: memories

\* The channels whose write request in the DUT names address a.
Writers(a) ==
    {i \in Channels : /\ get_bit(dut.data_mem_write_valid, i)
                      /\ dut.data_mem_write_address[i] = a}

\* The largest element of a non-empty set of channels.
Highest(S) == CHOOSE i \in S : \A k \in S : k <= i

\* C1: when a write on channel i and a read on channel j name the same
\* in-range address in one cycle, read_data[j] after data_mem.process() is the
\* data of the highest-indexed writing channel.
C1_WriteFirst ==
    (bench.last = "data_mem" /\ ~crashed) =>
        \A j \in Channels :
            LET a == dut.data_mem_read_address[j] IN
            (/\ get_bit(dut.data_mem_read_valid, j)
             /\ a < MAX_SIZE
             /\ Writers(a) # {})
            => dut.data_mem_read_data[j] = dut.data_mem_write_data[Highest(Writers(a))]

\* C2: after every process() call that returns, ready bit i equals valid bit
\* i: read channels of the instruction memory, read and write channels of the
\* data memory, in range or out of range, whatever the ready bits were before.
C2_ReadyIsValid ==
    /\ bench.last = "instruction_mem" =>
          dut.instruction_mem_read_ready = dut.instruction_mem_read_valid
    /\ (bench.last = "data_mem" /\ ~crashed) =>
          /\ dut.data_mem_read_ready = dut.data_mem_read_valid
          /\ dut.data_mem_write_ready = dut.data_mem_write_valid

\* C2 happens: a second data-memory call served an out-of-range read on
\* channel 1 and a write on channel 0 while the other ports were idle.
C2_Witness ==
    /\ bench.calls = 2
    /\ bench.last = "data_mem"
    /\ ~crashed
    /\ dut.data_mem_read_valid = {1}
    /\ dut.data_mem_read_address[1] = MAX_SIZE
    /\ dut.data_mem_read_ready = {1}
    /\ dut.data_mem_write_valid = {0}
    /\ dut.data_mem_write_ready = {0}

\* The contents of a memory: the word every address reads as.
Contents(memory) == [a \in Word |-> MapGet(memory, a)]

\* One process() call and what C4 says of it.
C4_Step ==
    /\ (bench'.calls = bench.calls + 1 /\ bench'.last = "instruction_mem") =>
          /\ \A i \in Channels :
                (/\ get_bit(dut'.instruction_mem_read_valid, i)
                 /\ dut'.instruction_mem_read_address[i] >= MAX_SIZE)
                => /\ dut'.instruction_mem_read_data[i] = 0
                   /\ get_bit(dut'.instruction_mem_read_ready, i)
          /\ Contents(instruction_mem'.memory) = Contents(instruction_mem.memory)
    /\ (bench'.calls = bench.calls + 1 /\ bench'.last = "data_mem" /\ ~crashed') =>
          /\ \A i \in Channels :
                (/\ get_bit(dut'.data_mem_read_valid, i)
                 /\ dut'.data_mem_read_address[i] >= MAX_SIZE)
                => /\ dut'.data_mem_read_data[i] = 0
                   /\ get_bit(dut'.data_mem_read_ready, i)
          /\ dut'.data_mem_write_valid = {} =>
                Contents(data_mem'.memory) = Contents(data_mem.memory)

\* C4: a read on channel i with address >= MAX_SIZE makes either memory put 0
\* into read_data[i] and set read_ready bit i, and changes no memory contents.
C4_OutOfRangeRead == [][C4_Step]_vars

\* C5: a read on channel i of an in-range address that was never written,
\* pushed or loaded yields read_data[i] = 0 with read_ready bit i set, in both
\* memories, the first time and every later time.
C5_UnwrittenReadsZero ==
    /\ bench.last = "instruction_mem" =>
          \A i \in Channels :
              LET a == dut.instruction_mem_read_address[i] IN
              (/\ get_bit(dut.instruction_mem_read_valid, i)
               /\ a < MAX_SIZE
               /\ a \notin bench.written_inst)
              => /\ dut.instruction_mem_read_data[i] = 0
                 /\ get_bit(dut.instruction_mem_read_ready, i)
    /\ (bench.last = "data_mem" /\ ~crashed) =>
          \A i \in Channels :
              LET a == dut.data_mem_read_address[i] IN
              (/\ get_bit(dut.data_mem_read_valid, i)
               /\ a < MAX_SIZE
               /\ a \notin bench.written_data)
              => /\ dut.data_mem_read_data[i] = 0
                 /\ get_bit(dut.data_mem_read_ready, i)

\* simulate() under a scheduler that keeps running the program.
SpecLive == InitSim /\ [][Next]_vars /\ WF_vars(Next)

\* ------------------------------------------------------ claims: simulate

\* C3: simulate returns true exactly when some cycle c < max_num_cycles shows
\* execution_done at its first settle, which is after exactly c clock pulses;
\* it returns false otherwise: the DUT was never done at such a settle, was
\* done only after the last pulse, or max_num_cycles is 0.
C3_ReturnValue ==
    /\ (sim.ret = "true") <=> (hist.done_settles # {})
    /\ sim.ret = "true" =>
          /\ hist.done_settles = {sim.cycle}
          /\ sim.cycle < sim.max_num_cycles
          /\ hist.n_pulse = sim.cycle
    /\ sim.ret = "false" =>
          /\ hist.done_settles = {}
          /\ hist.n_pulse = sim.max_num_cycles

\* C3 happens: simulate returned true at a cycle after the first.
C3_Witness ==
    /\ sim.ret = "true"
    /\ sim.cycle >= 1
    /\ dut.execution_done = 1

\* The steps of one full cycle, in order.
FullCycle ==
    << "eval", "instruction_mem.process", "data_mem.process", "eval",
       "clk=0", "eval", "clk=1", "eval" >>

\* The statements between instruction_mem.process() and the clock pulse.
AfterInstructionMem == {"data_mem", "settle", "tick_low", "tick_high"}

\* C6: a cycle in which the DUT is not done runs eval, instruction_mem
\* process, data_mem process, eval, clk=0 eval, clk=1 eval in this order; each
\* memory is serviced once per clock pulse, the instruction memory first, and
\* the data memory sees the requests the instruction memory saw.
C6_StepOrder ==
    /\ Len(hist.log) <= Len(FullCycle)
    /\ hist.log = SubSeq(FullCycle, 1, Len(hist.log))
    /\ (sim.pc = "loop" /\ sim.cycle > 0) => hist.log = FullCycle
    /\ hist.same_req
    /\ hist.n_inst =
          hist.n_pulse + (IF sim.pc \in AfterInstructionMem THEN 1 ELSE 0)
    /\ hist.n_data =
          hist.n_pulse + (IF sim.pc \in AfterInstructionMem \ {"data_mem"} \/ crashed
                          THEN 1 ELSE 0)

\* C6 happens: two full cycles have run.
C6_Witness ==
    /\ sim.pc = "loop"
    /\ sim.cycle = 2
    /\ hist.log = FullCycle
    /\ hist.n_data = 2

\* The counts simulate() leaves behind when it has returned.
C7_Counts ==
    /\ sim.cycle <= sim.max_num_cycles
    /\ sim.ret = "false" =>
          /\ hist.n_inst = sim.max_num_cycles
          /\ hist.n_data = sim.max_num_cycles
          /\ hist.n_pulse = sim.max_num_cycles
    /\ sim.ret = "true" =>
          /\ sim.cycle < sim.max_num_cycles
          /\ hist.n_inst = sim.cycle
          /\ hist.n_data = sim.cycle
          /\ hist.n_pulse = sim.cycle
          /\ data_mem.memory = hist.mem_serviced

\* C7: simulate ends within max_num_cycles iterations; returning false it has
\* serviced each memory and pulsed the clock max_num_cycles times; returning
\* true at cycle c it has done so c times, and the cycle that saw
\* execution_done left the data memory as the last serviced cycle left it.
C7_Termination ==
    /\ [] C7_Counts
    /\ <> (sim.pc = "returned" \/ crashed)

\* C7 happens: simulate ran out of cycles after servicing the memories.
C7_Witness ==
    /\ sim.ret = "false"
    /\ sim.max_num_cycles = MaxCycles
    /\ hist.n_pulse = MaxCycles
    /\ hist.n_data = MaxCycles

\* C8: set_kernel_config puts base_instructions_address in slot 3,
\* base_data_address in slot 2, num_blocks in slot 1 and num_warps_per_block
\* in slot 0 and changes no other signal; simulate and the memories leave
\* kernel_config alone.
C8_KernelConfig ==
    /\ hist.config = << >> => dut.kernel_config = FreshDut.kernel_config
    /\ hist.config # << >> =>
          /\ dut.kernel_config[3] = hist.config[1]
          /\ dut.kernel_config[2] = hist.config[2]
          /\ dut.kernel_config[1] = hist.config[3]
          /\ dut.kernel_config[0] = hist.config[4]
    /\ sim.pc = "setup" =>
          [dut EXCEPT !.kernel_config = FreshDut.kernel_config] = FreshDut

\* C8 happens: a configured run has serviced the memories and returned.
C8_Witness ==
    /\ hist.config = << 1, 2, 0, 1 >>
    /\ sim.pc = "returned"
    /\ hist.n_data >= 1

\* ------------------------------------------------------- parse_num calls

\* The characters of the free texts: a sign, digits of every base, the prefix
\* letters in both cases and a character that ends a number.
NumAlphabet == {"-", "0", "1", "7", "9", "a", "b", "B", "x", "X", "("}

\* Every text of at most MaxLen characters.
FreeTexts == UNION {[1 .. k -> NumAlphabet] : k \in 0 .. MaxLen}

\* The bases a number is written in, and what may follow a written number.
Bases == {2, 8, 10, 16}

Suffixes == {<< >>, << "(" >>, << ",", "1" >>}

\* The digits 0 .. 15 as characters.
DigitChars ==
    << "0", "1", "2", "3", "4", "5", "6", "7", "8", "9",
       "a", "b", "c", "d", "e", "f" >>

\* The digits of m >= 0 in base b, most significant first.
RECURSIVE DigitsOf(_, _)
DigitsOf(m, b) ==
    IF m < b THEN << DigitChars[m + 1] >>
    ELSE DigitsOf(m \div b, b) \o << DigitChars[(m % b) + 1] >>

\* The prefix that marks base b.
BasePrefix(b) ==
    CASE b = 2  -> << "0", "b" >>
      [] b = 8  -> << "0" >>
      [] b = 10 -> << >>
      [] b = 16 -> << "0", "x" >>

\* n written in base b: optional '-', the prefix, the digits of |n|.
Format(n, b) ==
    (IF n < 0 THEN << "-" >> ELSE << >>) \o BasePrefix(b)
        \o DigitsOf(IF n < 0 THEN - n ELSE n, b)

\* A call about to be made: the text given, and for a written number the
\* number and its base (base 0 marks a free text).
NumCall(given, n, base) ==
    [ pc |-> "call", given |-> given, n |-> n, base |-> base,
      result |-> NumIdle.result ]

\* The parser is handed a free text or a written number followed by a suffix.
InitNum ==
    /\ dut = FreshDut
    /\ fetcher = FetcherIdle
    /\ instruction_mem = make_instruction_memory
    /\ data_mem = make_data_memory
    /\ crashed = FALSE
    /\ bench = BenchIdle
    /\ sim = SimIdle
    /\ hist = NoHistory
    /\ line = LineIdle
    /\ reg = RegIdle
    /\ rf = RegFileIdle
    /\ num \in {NumCall(t, 0, 0) : t \in FreeTexts}
              \cup {NumCall(Format(n, b) \o x, n, b) :
                        n \in INT_MIN .. INT_MAX, b \in Bases, x \in Suffixes}

\* parse_num(source) on a free text.
ParseText ==
    /\ num.pc = "call"
    /\ num.base = 0
    /\ num' = [num EXCEPT !.pc = "done", !.result = parse_num(num.given)]
    /\ UNCHANGED << fetcher, line, reg, rf, dut, instruction_mem, data_mem, crashed, bench, sim, hist >>

\* parse_num(source) on a written number.
ParseFormatted ==
    /\ num.pc = "call"
    /\ num.base # 0
    /\ num' = [num EXCEPT !.pc = "done", !.result = parse_num(num.given)]
    /\ UNCHANGED << fetcher, line, reg, rf, dut, instruction_mem, data_mem, crashed, bench, sim, hist >>

NextNum ==
    \/ ParseText
    \/ ParseFormatted

SpecNum == InitNum /\ [][NextNum]_vars

\* ------------------------------------------------------ claims: parse_num

\* The number of characters the call consumed.
Consumed == Len(num.given) - Len(num.result.source)

\* C9: every n in INT_MIN .. INT_MAX written in base 2, 8, 10 or 16 with its
\* prefix parses back to n, and the view is advanced by exactly the length of
\* the written text.
C9_RoundTrip ==
    (num.pc = "done" /\ num.base # 0) =>
        /\ num.result.ok
        /\ num.result.value = num.n
        /\ Consumed = Len(Format(num.n, num.base))

\* The characters 0-9, and the characters that are digits in base 16.
DecimalDigits == {"0", "1", "2", "3", "4", "5", "6", "7", "8", "9"}

HexDigits == DOMAIN DigitTable

\* The text after the optional sign.
Body(text) == IF text[1] = "-" THEN Tail(text) ELSE text

\* The base the claim selects for a body, when "digit" means a character of D.
StatedBase(body, D) ==
    CASE Len(body) > 1 /\ body[1] = "0" /\ body[2] \in {"x", "X"} -> 16
      [] Len(body) > 1 /\ body[1] = "0" /\ body[2] \in {"b", "B"} -> 2
      [] Len(body) > 1 /\ body[1] = "0" /\ body[2] \in D \ {"b", "B"} -> 8
      [] OTHER -> 10

\* The longest leading run of hex-digit characters of text.
HexRun(text) ==
    LET k == CHOOSE k \in 0 .. Len(text) :
                /\ \A i \in 1 .. k : text[i] \in HexDigits
                /\ k = Len(text) \/ text[k + 1] \notin HexDigits
    IN  SubSeq(text, 1, k)

\* What C10 says of a finished call, when "digit" means a character of D.
BaseSelection(D) ==
    (num.pc = "done" /\ num.given # << >> /\ Body(num.given) # << >>) =>
        LET body   == Body(num.given)
            signed == num.given[1] = "-"
            base   == StatedBase(body, D)
            run    == HexRun(IF base \in {2, 16} THEN remove_prefix(body, 2) ELSE body)
            bad    == {i \in 1 .. Len(run) : DigitTable[run[i]] >= base}
        IN  /\ (num.result.error = "Invalid digit") <=> (bad # {})
            /\ bad # {} =>
                  /\ num.result.digit = run[CHOOSE i \in bad : \A k \in bad : i <= k]
                  /\ num.result.base = base
            /\ num.result.ok =>
                  num.result.value = (IF signed THEN - DigitsValue(run, base)
                                                ELSE DigitsValue(run, base))
            /\ (/\ Len(body) > 1
                /\ body[1] = "0"
                /\ body[2] \notin D \cup {"x", "X", "b", "B"})
               => /\ num.result.ok
                  /\ num.result.value = 0
                  /\ Consumed = (IF signed THEN 2 ELSE 1)

\* C10: after the sign, 0x/0X selects base 16, 0b/0B base 2, a 0 followed by
\* another hex-digit character base 8, anything else base 10; the call fails
\* naming the digit and the base exactly when the leading run of hex-digit
\* characters holds a character that is no digit of that base; a 0 followed by
\* a character that is no hex digit parses as 0 and consumes one character.
C10_BaseSelection == BaseSelection(HexDigits)

\* C10 as stated, a digit being one of 0-9: a 0 followed by a decimal digit
\* selects base 8, a 0 followed by any other character is the number 0.
C10_DecimalDigits == BaseSelection(DecimalDigits)

\* C10 happens: a 0 followed by the hex digit a was refused as an octal number.
C10_Witness ==
    /\ num.pc = "done"
    /\ num.given = << "0", "a" >>
    /\ num.result.error = "Invalid digit"
    /\ num.result.digit = "a"
    /\ num.result.base = 8

\* The digits of a text after its sign and prefix: the leading hex-digit run.
LiteralRun(text) ==
    LET body == Body(text)
        base == StatedBase(body, HexDigits)
    IN  HexRun(IF base \in {2, 16} THEN remove_prefix(body, 2) ELSE body)

\* A text starts with a literal: after the optional sign and the prefix comes a
\* non-empty run of hex digits that are all digits of the selected base.
StartsWithLiteral(text) ==
    /\ text # << >>
    /\ Body(text) # << >>
    /\ LiteralRun(text) # << >>
    /\ \A i \in 1 .. Len(LiteralRun(text)) :
          DigitTable[LiteralRun(text)[i]] < StatedBase(Body(text), HexDigits)

\* The mathematical value of the literal a text starts with.
LiteralValue(text) ==
    LET v == DigitsValue(LiteralRun(text), StatedBase(Body(text), HexDigits))
    IN  IF text[1] = "-" THEN - v ELSE v

\* C11: parse_num succeeds with v only on a literal whose mathematical value
\* is v, and v lies in INT_MIN .. INT_MAX; a literal whose value lies outside
\* fails with the overflow error; the empty text and a lone '-' fail; no
\* success carries a wrapped value.
C11_NoWrappedValue ==
    num.pc = "done" =>
        /\ num.result.ok =>
              /\ StartsWithLiteral(num.given)
              /\ num.result.value = LiteralValue(num.given)
              /\ INT_MIN <= num.result.value
              /\ num.result.value <= INT_MAX
        /\ (/\ StartsWithLiteral(num.given)
            /\ (LiteralValue(num.given) < INT_MIN \/ LiteralValue(num.given) > INT_MAX))
           => /\ ~num.result.ok
              /\ num.result.error = "result_out_of_range"
        /\ num.given \in {<< >>, << "-" >>} => ~num.result.ok

\* C11 happens: a decimal literal one above INT_MAX was refused as too large.
C11_Witness ==
    /\ num.pc = "done"
    /\ StartsWithLiteral(num.given)
    /\ LiteralValue(num.given) = INT_MAX + 1
    /\ num.result.error = "result_out_of_range"

\* ------------------------------------------------------------ line parser

\* std::nullopt, and an optional holding a value.
nullopt == << >>

Some(v) == << v >>

\* The mnemonic tables of parser::is_itype_arithmetic, is_rtype,
\* is_load_type and is_store_type.
is_itype_arithmetic(name) ==
    name \in {"ADDI", "SLTI", "XORI", "ORI", "ANDI", "SLLI", "SRLI", "SRAI", "SX_SLTI"}

is_rtype(name) ==
    name \in {"ADD", "SUB", "SLL", "SLT", "XOR", "SRL", "SRA", "OR", "AND", "SX_SLT"}

is_load_type(name) == name \in {"LB", "LH", "LW"}

is_store_type(name) == name \in {"SB", "SH", "SW"}

\* sim::Mnemonic: a name and the scalar flag.
Mnemonic(name, scalar) == [name |-> name, scalar |-> scalar]

\* RegisterData: a register type and a register number.
RegisterData(type, register_number) ==
    [type |-> type, register_number |-> register_number]

\* RegisterData::is_scalar().
is_scalar(register_data) == register_data.type = "SCALAR"

\* A Token: its type, its column and the payload of its type.
Token(type, col) ==
    [ type |-> type, col |-> col,
      mnemonic |-> Mnemonic("", FALSE),
      register_data |-> RegisterData("", 0),
      value |-> 0,
      name |-> "" ]

\* Parser::Error.
Error(message, column) == [message |-> message, column |-> column]

\* A Parser: the tokens not yet consumed and the errors pushed so far.
Parser(tokens) == [tokens |-> tokens, errors |-> << >>]

\* Parser::push_err(message, column).
push_err(parser, message, column) ==
    [parser EXCEPT !.errors = Append(@, Error(message, column))]

\* Parser::chop(): the parser without its first token.
chop(parser) ==
    IF parser.tokens = << >> THEN parser
    ELSE [parser EXCEPT !.tokens = Tail(@)]

\* Parser::peek(): the first token, as an optional.
peek(parser) ==
    IF parser.tokens = << >> THEN nullopt ELSE Some(Head(parser.tokens))

\* Parser::throw_unexpected_token(expected, unexpected).
throw_unexpected_token(parser, expected, unexpected) ==
    push_err(parser, << "Unexpected token: Expected", expected,
                        "instead found", unexpected.type >>, unexpected.col)

\* Parser::throw_unexpected_eos(expected).
throw_unexpected_eos(parser, expected) ==
    push_err(parser, << "Unexpected end of stream: Expected", expected >>, 0)

\* Parser::expect<type>(): the parser after the call and the optional token.
expect(parser, type) ==
    IF parser.tokens = << >>
    THEN [parser |-> throw_unexpected_eos(parser, type), token |-> nullopt]
    ELSE IF Head(parser.tokens).type # type
    THEN [ parser |-> throw_unexpected_token(chop(parser), type, Head(parser.tokens)),
           token |-> nullopt ]
    ELSE [parser |-> chop(parser), token |-> Some(Head(parser.tokens))]

\* A run of EXPECT_OR_RETURN(opt, type) statements: the tokens taken, up to
\* the first one that is missing or of another type.
RECURSIVE EXPECT_OR_RETURN(_, _, _)
EXPECT_OR_RETURN(parser, types, taken) ==
    IF types = << >> THEN [parser |-> parser, ok |-> TRUE, taken |-> taken]
    ELSE LET e == expect(parser, Head(types))
         IN  IF e.token = nullopt
             THEN [parser |-> e.parser, ok |-> FALSE, taken |-> taken]
             ELSE EXPECT_OR_RETURN(e.parser, Tail(types), Append(taken, e.token[1]))

\* Parser::check_register_correct_type(reg_token, should_be_scalar).
check_register_correct_type(parser, reg_token, should_be_scalar) ==
    IF is_scalar(reg_token.register_data) # should_be_scalar
    THEN [ parser |-> push_err(parser,
                         << "Register should be",
                            IF should_be_scalar THEN "scalar" ELSE "vector" >>,
                         reg_token.col),
           ok |-> FALSE ]
    ELSE [parser |-> parser, ok |-> TRUE]

\* A run of CHECK_REG(reg, should_be_scalar) statements, up to the first
\* register of the other kind; checks is a sequence of << token, kind >>.
RECURSIVE CHECK_REG(_, _)
CHECK_REG(parser, checks) ==
    IF checks = << >> THEN [parser |-> parser, ok |-> TRUE]
    ELSE LET c == check_register_correct_type(parser, Head(checks)[1], Head(checks)[2])
         IN  IF ~c.ok THEN c ELSE CHECK_REG(c.parser, Tail(checks))


\* The operand shapes of parser::Instruction.
NoOperands == [shape |-> "none"]

ItypeOperands(rd, rs1, imm12) ==
    [shape |-> "Itype", rd |-> rd, rs1 |-> rs1, imm12 |-> imm12]

RtypeOperands(rd, rs1, rs2) ==
    [shape |-> "Rtype", rd |-> rd, rs1 |-> rs1, rs2 |-> rs2]

StypeOperands(rs1, rs2, imm12) ==
    [shape |-> "Stype", rs1 |-> rs1, rs2 |-> rs2, imm12 |-> imm12]

\* The alternatives of parser::Line.
Instruction(label, mnemonic, operands) ==
    [ line |-> "Instruction", label |-> label, mnemonic |-> mnemonic,
      operands |-> operands ]

JustLabel(label) == [line |-> "JustLabel", label |-> label]

BlocksDirective(number) == [line |-> "BlocksDirective", number |-> number]

WarpsDirective(number) == [line |-> "WarpsDirective", number |-> number]

\* What a parsing member function hands back: the parser and the optional.
Parsed(parser, result) == [parser |-> parser, result |-> result]

\* Parser::parse_itype_arithemtic_instruction(mnemonic).
parse_itype_arithemtic_instruction(parser, mnemonic) ==
    LET e   == EXPECT_OR_RETURN(parser,
                   << "Register", "Comma", "Register", "Comma", "Immediate" >>, << >>)
        rd  == e.taken[1]
        rs1 == e.taken[3]
        imm12 == e.taken[5]
        c   == IF mnemonic.name = "SX_SLTI"
               THEN CHECK_REG(e.parser, << << rd, TRUE >>, << rs1, FALSE >> >>)
               ELSE CHECK_REG(e.parser, << << rd, mnemonic.scalar >>,
                                           << rs1, mnemonic.scalar >> >>)
    IN  IF ~e.ok THEN Parsed(e.parser, nullopt)
        ELSE IF ~c.ok THEN Parsed(c.parser, nullopt)
        ELSE Parsed(c.parser,
                    Some(Instruction(nullopt, mnemonic,
                             ItypeOperands(rd.register_data, rs1.register_data,
                                           imm12.value))))

\* Parser::parse_rtype_instruction(mnemonic).
parse_rtype_instruction(parser, mnemonic) ==
    LET e   == EXPECT_OR_RETURN(parser,
                   << "Register", "Comma", "Register", "Comma", "Register" >>, << >>)
        rd  == e.taken[1]
        rs1 == e.taken[3]
        rs2 == e.taken[5]
        c   == IF mnemonic.name = "SX_SLT"
               THEN CHECK_REG(e.parser, << << rd, TRUE >>, << rs1, FALSE >>,
                                           << rs2, FALSE >> >>)
               ELSE CHECK_REG(e.parser, << << rd, mnemonic.scalar >>,
                                           << rs1, mnemonic.scalar >>,
                                           << rs2, mnemonic.scalar >> >>)
    IN  IF ~e.ok THEN Parsed(e.parser, nullopt)
        ELSE IF ~c.ok THEN Parsed(c.parser, nullopt)
        ELSE Parsed(c.parser,
                    Some(Instruction(nullopt, mnemonic,
                             RtypeOperands(rd.register_data, rs1.register_data,
                                           rs2.register_data))))

\* Parser::parse_load_instruction(mnemonic).
parse_load_instruction(parser, mnemonic) ==
    LET e   == EXPECT_OR_RETURN(parser,
                   << "Register", "Comma", "Immediate", "Lparen", "Register",
                      "Rparen" >>, << >>)
        rd  == e.taken[1]
        offset == e.taken[3]
        rs1 == e.taken[5]
        c   == CHECK_REG(e.parser, << << rd, mnemonic.scalar >>,
                                      << rs1, mnemonic.scalar >> >>)
    IN  IF ~e.ok THEN Parsed(e.parser, nullopt)
        ELSE IF ~c.ok THEN Parsed(c.parser, nullopt)
        ELSE Parsed(c.parser,
                    Some(Instruction(nullopt, mnemonic,
                             ItypeOperands(rd.register_data, rs1.register_data,
                                           offset.value))))

\* A parse_store_instruction that takes the first register as rs1.
parse_store_instruction_first_is_rs1(parser, mnemonic) ==
    LET e   == EXPECT_OR_RETURN(parser,
                   << "Register", "Comma", "Immediate", "Lparen", "Register",
                      "Rparen" >>, << >>)
        rs1 == e.taken[1]
        offset == e.taken[3]
        rs2 == e.taken[5]
        c   == CHECK_REG(e.parser, << << rs1, mnemonic.scalar >>,
                                      << rs2, mnemonic.scalar >> >>)
    IN  IF ~e.ok THEN Parsed(e.parser, nullopt)
        ELSE IF ~c.ok THEN Parsed(c.parser, nullopt)
        ELSE Parsed(c.parser,
                    Some(Instruction(nullopt, mnemonic,
                             StypeOperands(rs1.register_data, rs2.register_data,
                                           offset.value))))

\* Parser::parse_store_instruction(mnemonic).
parse_store_instruction(parser, mnemonic) ==
    LET e   == EXPECT_OR_RETURN(parser,
                   << "Register", "Comma", "Immediate", "Lparen", "Register",
                      "Rparen" >>, << >>)
        rs2 == e.taken[1]
        offset == e.taken[3]
        rs1 == e.taken[5]
        c   == CHECK_REG(e.parser, << << rs1, mnemonic.scalar >>,
                                      << rs2, mnemonic.scalar >> >>)
    IN  IF ~e.ok THEN Parsed(e.parser, nullopt)
        ELSE IF ~c.ok THEN Parsed(c.parser, nullopt)
        ELSE Parsed(c.parser,
                    Some(Instruction(nullopt, mnemonic,
                             StypeOperands(rs1.register_data, rs2.register_data,
                                           offset.value))))

\* Parser::parse_instruction().
parse_instruction(parser) ==
    LET mnemonic_token == Head(parser.tokens)
        mnemonic == mnemonic_token.mnemonic
        p == chop(parser)
    IN  IF mnemonic.name = "HALT"
        THEN Parsed(p, Some(Instruction(nullopt, mnemonic, NoOperands)))
        ELSE IF is_itype_arithmetic(mnemonic.name)
        THEN parse_itype_arithemtic_instruction(p, mnemonic)
        ELSE IF is_rtype(mnemonic.name)
        THEN parse_rtype_instruction(p, mnemonic)
        ELSE IF is_load_type(mnemonic.name)
        THEN parse_load_instruction(p, mnemonic)
        ELSE IF is_store_type(mnemonic.name)
        THEN parse_store_instruction(p, mnemonic)
        ELSE Parsed(push_err(p, << "Unknown mnemonic", mnemonic.name >>,
                             mnemonic_token.col),
                    nullopt)

\* The uint32_t that static_cast<std::uint32_t> makes of a positive int32_t.
uint32_t(value) == value % 2 ^ IntBits

\* A parse_directive that refuses only negative numbers.
parse_directive_zero_allowed(parser) ==
    LET token  == Head(parser.tokens)
        number == expect(chop(parser), "Immediate")
        value  == number.token[1].value
        p      == number.parser
    IN  IF parser.tokens = << >> THEN Parsed(parser, nullopt)
        ELSE IF number.token = nullopt THEN Parsed(p, nullopt)
        ELSE IF value < 0
        THEN Parsed(push_err(p, << "Invalid number of", token.type >>,
                             number.token[1].col),
                    nullopt)
        ELSE IF peek(p) # nullopt
        THEN Parsed(throw_unexpected_token(p, "End of line", peek(p)[1]), nullopt)
        ELSE IF token.type = "BlocksDirective"
        THEN Parsed(p, Some(BlocksDirective(uint32_t(value))))
        ELSE Parsed(p, Some(WarpsDirective(uint32_t(value))))

\* Parser::parse_directive().
parse_directive(parser) ==
    LET token  == Head(parser.tokens)
        number == expect(chop(parser), "Immediate")
        value  == number.token[1].value
        p      == number.parser
    IN  IF parser.tokens = << >> THEN Parsed(parser, nullopt)
        ELSE IF number.token = nullopt THEN Parsed(p, nullopt)
        ELSE IF value < 1
        THEN Parsed(push_err(p, << "Invalid number of", token.type >>,
                             number.token[1].col),
                    nullopt)
        ELSE IF peek(p) # nullopt
        THEN Parsed(throw_unexpected_token(p, "End of line", peek(p)[1]), nullopt)
        ELSE IF token.type = "BlocksDirective"
        THEN Parsed(p, Some(BlocksDirective(uint32_t(value))))
        ELSE Parsed(p, Some(WarpsDirective(uint32_t(value))))

\* Parser::parse_line(): the member function.
Parser_parse_line(parser) ==
    LET first == Head(parser.tokens)
        has_label == first.type = "Label"
        label == IF has_label THEN Some(first.name) ELSE nullopt
        p == IF has_label THEN chop(parser) ELSE parser
        token == IF has_label /\ p.tokens # << >> THEN Head(p.tokens) ELSE first
        instruction == parse_instruction(p)
        q == instruction.parser
    IN  IF parser.tokens = << >> THEN Parsed(parser, nullopt)
        ELSE IF first.type \in {"BlocksDirective", "WarpsDirective"}
        THEN parse_directive(parser)
        ELSE IF has_label /\ p.tokens = << >>
        THEN Parsed(p, Some(JustLabel(first.name)))
        ELSE IF token.type = "Mnemonic"
        THEN IF instruction.result = nullopt THEN Parsed(q, nullopt)
             ELSE IF q.tokens = << >>
             THEN Parsed(q, Some([instruction.result[1] EXCEPT !.label = label]))
             ELSE Parsed(push_err(q, << "Unexpected token: Expected end of line",
                                        "instead found", peek(q)[1].type >>,
                                  token.col),
                         nullopt)
        ELSE Parsed(push_err(p, << "Unexpected token: Expected mnemonic or directive",
                                   "instead found", token.type >>, token.col),
                    nullopt)

\* parse_line(tokens): the Line, or the errors the parser has collected.
parse_line(tokens) ==
    LET parsed == Parser_parse_line(Parser(tokens))
    IN  IF parsed.result = nullopt
        THEN [has_value |-> FALSE, value |-> nullopt, error |-> parsed.parser.errors]
        ELSE [has_value |-> TRUE, value |-> parsed.result, error |-> << >>]


\* ------------------------------------------------------ parse_line calls

\* Tokens as the lexer makes them, before their columns are known.
MnemonicToken(name, scalar) ==
    [Token("Mnemonic", 0) EXCEPT !.mnemonic = Mnemonic(name, scalar)]

RegisterToken(register_data) ==
    [Token("Register", 0) EXCEPT !.register_data = register_data]

ImmediateToken(value) == [Token("Immediate", 0) EXCEPT !.value = value]

LabelToken(name) == [Token("Label", 0) EXCEPT !.name = name]

\* The mnemonics, registers and immediates the lines are written with.
LineMnemonics ==
    { MnemonicToken(n, s) :
        n \in {"ADDI", "SX_SLTI", "ADD", "SX_SLT", "LW", "SW", "HALT"},
        s \in BOOLEAN }

LineRegisters ==
    { RegisterToken(RegisterData(t, n)) : t \in {"VECTOR", "SCALAR"}, n \in 1 .. MaxReg }
        \cup { RegisterToken(RegisterData("PC", 0)) }

LineImmediates == { ImmediateToken(v) : v \in -1 .. MaxImm }

\* The operand tokens a mnemonic is written with.
OperandLines(name) ==
    IF is_itype_arithmetic(name)
    THEN { << a, Token("Comma", 0), b, Token("Comma", 0), i >> :
             a \in LineRegisters, b \in LineRegisters, i \in LineImmediates }
    ELSE IF is_rtype(name)
    THEN { << a, Token("Comma", 0), b, Token("Comma", 0), c >> :
             a \in LineRegisters, b \in LineRegisters, c \in LineRegisters }
    ELSE IF is_load_type(name) \/ is_store_type(name)
    THEN { << a, Token("Comma", 0), i, Token("Lparen", 0), b, Token("Rparen", 0) >> :
             a \in LineRegisters, b \in LineRegisters, i \in LineImmediates }
    ELSE { << >> }

\* Lines of the grammar written with the mnemonics M: directives, a lone
\* label, instructions with and without the label.
InstructionLines(M) ==
    UNION { { << m >> \o ops : ops \in OperandLines(m.mnemonic.name) } : m \in M }

DirectiveLines(I) ==
    { << Token(d, 0), i >> : d \in {"BlocksDirective", "WarpsDirective"}, i \in I }

GrammarLines(M, label) ==
    InstructionLines(M)
        \cup { << LabelToken(label) >> \o l : l \in InstructionLines(M) }
        \cup DirectiveLines(LineImmediates)
        \cup { << LabelToken(label) >> }

\* Lines off the grammar, made from the lines G: a line cut short, a line with
\* one token too many, and a line with a token replaced by a comma.
CutLines(G) == UNION { { SubSeq(l, 1, n) : n \in 0 .. Len(l) } : l \in G }

LongLines(G) ==
    { l \o << t >> : l \in G, t \in {Token("Comma", 0), ImmediateToken(1)} }

ReplacedLines(G) ==
    UNION { { [l EXCEPT ![n] = Token("Comma", 0)] : n \in 1 .. Len(l) } : l \in G }

\* The column the lexer records for the i-th token of a line.
ColumnOf(i) == 3 * i - 2

Place(l) == [i \in 1 .. Len(l) |-> [l[i] EXCEPT !.col = ColumnOf(i)]]

TokenLines(G) == { Place(l) : l \in CutLines(G) \cup LongLines(G) \cup ReplacedLines(G) }

InitParse ==
    /\ dut = FreshDut
    /\ fetcher = FetcherIdle
    /\ instruction_mem = make_instruction_memory
    /\ data_mem = make_data_memory
    /\ crashed = FALSE
    /\ bench = BenchIdle
    /\ sim = SimIdle
    /\ hist = NoHistory
    /\ num = NumIdle
    /\ reg = RegIdle
    /\ rf = RegFileIdle
    /\ line \in { [pc |-> "call", tokens |-> l] :
                    l \in TokenLines(GrammarLines(LineMnemonics, "loop")) }

\* parse_line(tokens).
CallParseLine ==
    /\ line.pc = "call"
    /\ line' = [pc |-> "done", tokens |-> line.tokens, result |-> parse_line(line.tokens)]
    /\ UNCHANGED << fetcher, dut, instruction_mem, data_mem, crashed, bench, sim, hist, num, reg, rf >>

NextParse == CallParseLine

SpecParse == InitParse /\ [][NextParse]_vars


\* ---------------------------------------------------- claims: line parser

\* The token types of a line, and the line after its optional label.
TypesOf(tokens) == [i \in 1 .. Len(tokens) |-> tokens[i].type]

LineBody(tokens) ==
    IF tokens # << >> /\ tokens[1].type = "Label" THEN Tail(tokens) ELSE tokens

\* The operand token types the grammar gives a mnemonic.
OperandTypes(name) ==
    IF is_itype_arithmetic(name)
    THEN << "Register", "Comma", "Register", "Comma", "Immediate" >>
    ELSE IF is_rtype(name)
    THEN << "Register", "Comma", "Register", "Comma", "Register" >>
    ELSE IF is_load_type(name) \/ is_store_type(name)
    THEN << "Register", "Comma", "Immediate", "Lparen", "Register", "Rparen" >>
    ELSE << >>

\* A line is a syntactically well-formed instruction line.
WellFormedInstruction(tokens) ==
    LET body == LineBody(tokens)
    IN  /\ body # << >>
        /\ body[1].type = "Mnemonic"
        /\ TypesOf(Tail(body)) = OperandTypes(body[1].mnemonic.name)

\* The register kind the stated rule wants at position i of an instruction
\* line's body: position 2 is rd except in a store.
WantedKind(body, i) ==
    IF body[1].mnemonic.name \in {"SX_SLT", "SX_SLTI"}
    THEN IF i = 2 THEN "SCALAR" ELSE "VECTOR"
    ELSE IF body[1].mnemonic.scalar THEN "SCALAR" ELSE "not SCALAR"

HasKind(token, kind) ==
    IF kind = "not SCALAR" THEN token.register_data.type # "SCALAR"
    ELSE token.register_data.type = kind

\* The positions of an instruction line's registers that break the rule.
Offending(body) ==
    { i \in 1 .. Len(body) :
        body[i].type = "Register" /\ ~HasKind(body[i], WantedKind(body, i)) }

IsRegisterTypeError(e) == e.message[1] = "Register should be"

\* C12: a well-formed instruction line is accepted iff, for a mnemonic other
\* than SX_SLT and SX_SLTI, every operand register is scalar exactly when the
\* mnemonic's flag is set, and for SX_SLTI / SX_SLT iff rd is Scalar and rs1
\* (and rs2) are Vector; a rejected line carries a register-type error at the
\* column of an offending register.
C12_RegisterTypes ==
    (line.pc = "done" /\ WellFormedInstruction(line.tokens)) =>
        LET body == LineBody(line.tokens)
        IN  /\ line.result.has_value <=> Offending(body) = {}
            /\ ~line.result.has_value =>
                  \E n \in 1 .. Len(line.result.error), i \in Offending(body) :
                      /\ IsRegisterTypeError(line.result.error[n])
                      /\ line.result.error[n].column = body[i].col


\* The registers of an instruction line that are of the wrong kind: a Scalar
\* where a Vector is wanted, or a Vector where a Scalar is wanted.
WrongKind(body) ==
    { i \in Offending(body) : body[i].register_data.type \in {"VECTOR", "SCALAR"} }

\* C13: the parser collects all errors of a line: for a well-formed
\* instruction line, each register of the wrong kind has its own error in the
\* returned list, also when two or more registers are wrong.
C13_AllErrors ==
    (line.pc = "done" /\ WellFormedInstruction(line.tokens)) =>
        \A i \in WrongKind(LineBody(line.tokens)) :
            \E n \in 1 .. Len(line.result.error) :
                /\ IsRegisterTypeError(line.result.error[n])
                /\ line.result.error[n].column = LineBody(line.tokens)[i].col


\* The length of the complete instruction a line starts with, as a set: the
\* proper prefixes of the line that parse_line accepts as an Instruction.
CompleteInstruction(tokens) ==
    { n \in 1 .. Len(tokens) - 1 :
        LET r == parse_line(SubSeq(tokens, 1, n))
        IN  r.has_value /\ r.value[1].line = "Instruction" }

\* C14: parse_line returns a Line and no error, or no Line and a non-empty
\* error list, for every token sequence, the empty one included; a complete
\* instruction followed by extra tokens gives the errors, not the instruction.
C14_LineOrErrors ==
    line.pc = "done" =>
        /\ line.result.has_value =>
              (line.result.value # nullopt /\ line.result.error = << >>)
        /\ ~line.result.has_value =>
              (line.result.value = nullopt /\ Len(line.result.error) >= 1)
        /\ CompleteInstruction(line.tokens) # {} => ~line.result.has_value

\* C15: every error of parse_line carries a column >= 1 that is the column of
\* a token of the line, and the error for tokens after a complete instruction
\* carries the column of the first such token.
C15_ErrorColumns ==
    (line.pc = "done" /\ ~line.result.has_value) =>
        /\ \A n \in 1 .. Len(line.result.error) :
              /\ line.result.error[n].column >= 1
              /\ \E i \in 1 .. Len(line.tokens) :
                    line.tokens[i].col = line.result.error[n].column
        /\ \A k \in CompleteInstruction(line.tokens) :
              \E n \in 1 .. Len(line.result.error) :
                  line.result.error[n].column = line.tokens[k + 1].col


\* A line that starts with a directive token.
DirectiveLine(tokens) ==
    tokens # << >> /\ tokens[1].type \in {"BlocksDirective", "WarpsDirective"}

\* C16: a directive line is accepted iff it is exactly the directive and an
\* Immediate n >= 1, and the result is then that directive with number n; a
\* number of 0 or below, a missing number and a trailing token are each
\* refused with an error.
C16_Directives ==
    (line.pc = "done" /\ DirectiveLine(line.tokens)) =>
        LET exact == /\ Len(line.tokens) = 2
                     /\ line.tokens[2].type = "Immediate"
                     /\ line.tokens[2].value >= 1
        IN  /\ line.result.has_value <=> exact
            /\ line.result.has_value =>
                  /\ line.result.value[1].line = line.tokens[1].type
                  /\ line.result.value[1].number = line.tokens[2].value
            /\ ~line.result.has_value => Len(line.result.error) >= 1

\* C16 happens: '.warps 1' was accepted as WarpsDirective{number = 1}.
C16_Witness ==
    /\ line.pc = "done"
    /\ TypesOf(line.tokens) = << "WarpsDirective", "Immediate" >>
    /\ line.tokens[2].value = 1
    /\ line.result.has_value
    /\ line.result.value[1] = WarpsDirective(1)


\* The label a line starts with, as the optional the Instruction carries.
LabelOf(tokens) ==
    IF tokens # << >> /\ tokens[1].type = "Label" THEN Some(tokens[1].name) ELSE nullopt

\* C17: a store line 'Reg_a , Imm ( Reg_b )' gives Stype operands with
\* rs2 = Reg_a, rs1 = Reg_b, imm12 = Imm; a load line of that shape gives
\* Itype operands with rd = Reg_a, rs1 = Reg_b, imm12 = Imm; a leading label
\* becomes the instruction's label and a lone label gives JustLabel.
C17_OperandMapping ==
    line.pc = "done" =>
        LET body == LineBody(line.tokens)
            name == body[1].mnemonic.name
            inst == line.result.value[1]
        IN  /\ (WellFormedInstruction(line.tokens) /\ Offending(body) = {}) =>
                  /\ line.result.has_value
                  /\ inst.line = "Instruction"
                  /\ inst.mnemonic = body[1].mnemonic
                  /\ inst.label = LabelOf(line.tokens)
                  /\ is_store_type(name) =>
                        inst.operands = StypeOperands(body[6].register_data,
                                                      body[2].register_data,
                                                      body[4].value)
                  /\ is_load_type(name) =>
                        inst.operands = ItypeOperands(body[2].register_data,
                                                      body[6].register_data,
                                                      body[4].value)
            /\ TypesOf(line.tokens) = << "Label" >> =>
                  /\ line.result.has_value
                  /\ line.result.value[1] = JustLabel(line.tokens[1].name)

\* C17 happens: a labelled store with two different registers was accepted.
C17_Witness ==
    /\ line.pc = "done"
    /\ WellFormedInstruction(line.tokens)
    /\ line.tokens[1].type = "Label"
    /\ is_store_type(line.tokens[2].mnemonic.name)
    /\ line.tokens[3].register_data # line.tokens[7].register_data
    /\ line.result.has_value
    /\ line.result.value[1].label = << "loop" >>
    /\ line.result.value[1].operands.rs2 = line.tokens[3].register_data


\* ------------------------------------------------------- the push pointer

\* A test that mixes pushes with direct writes, load_instruction and bench
\* cycles.  pushed_inst and pushed_data count the push calls, value is the
\* word last pushed and writes counts the direct writes (observation only).
PushIdle ==
    [ preloads     |-> 0,
      calls        |-> 0,
      last         |-> "none",
      written_inst |-> {},
      written_data |-> {},
      pushed_inst  |-> 0,
      pushed_data  |-> 0,
      writes       |-> 0,
      value        |-> 0 ]

InitPush ==
    /\ dut = FreshDut
    /\ fetcher = FetcherIdle
    /\ instruction_mem = make_instruction_memory
    /\ data_mem = make_data_memory
    /\ crashed = FALSE
    /\ bench = PushIdle
    /\ sim = SimIdle
    /\ hist = NoHistory
    /\ num = NumIdle
    /\ line = LineIdle
    /\ reg = RegIdle
    /\ rf = RegFileIdle

\* The words the test pushes; everything else stores 0.
PushedWords == 1 .. MaxWord

\* data_memory.push_data(data), at any point of the test.
PushData ==
    /\ ~crashed
    /\ bench.pushed_data < MAX_SIZE
    /\ \E data \in PushedWords :
          /\ data_mem' = push_data(data_mem, data)
          /\ bench' = [bench EXCEPT !.pushed_data = @ + 1, !.value = data,
                                    !.last = "push_data"]
    /\ UNCHANGED << fetcher, line, reg, rf, num, dut, instruction_mem, crashed, sim, hist >>

\* instruction_memory.push_instruction(instruction), at any point of the test.
PushInstruction ==
    /\ ~crashed
    /\ bench.pushed_inst < MAX_SIZE
    /\ \E instruction \in PushedWords :
          /\ instruction_mem' = push_instruction(instruction_mem, instruction)
          /\ bench' = [bench EXCEPT !.pushed_inst = @ + 1, !.value = instruction,
                                    !.last = "push_instruction"]
    /\ UNCHANGED << fetcher, line, reg, rf, num, dut, data_mem, crashed, sim, hist >>

\* data_memory[addr] = 0.
IndexWriteData ==
    /\ ~crashed
    /\ bench.writes < MaxDirect
    /\ \E addr \in Word : data_mem' = index_write(data_mem, addr, 0)
    /\ bench' = [bench EXCEPT !.writes = @ + 1, !.last = "data_mem[]"]
    /\ UNCHANGED << fetcher, line, reg, rf, num, dut, instruction_mem, crashed, sim, hist >>

\* instruction_memory[addr] = 0.
IndexWriteInstruction ==
    /\ ~crashed
    /\ bench.writes < MaxDirect
    /\ \E addr \in Word : instruction_mem' = index_write(instruction_mem, addr, 0)
    /\ bench' = [bench EXCEPT !.writes = @ + 1, !.last = "instruction_mem[]"]
    /\ UNCHANGED << fetcher, line, reg, rf, num, dut, data_mem, crashed, sim, hist >>

\* instruction_memory.load_instruction(addr, 0).
LoadInstruction ==
    /\ ~crashed
    /\ bench.writes < MaxDirect
    /\ \E addr \in Word : instruction_mem' = load_instruction(instruction_mem, addr, 0)
    /\ bench' = [bench EXCEPT !.writes = @ + 1, !.last = "load_instruction"]
    /\ UNCHANGED << fetcher, line, reg, rf, num, dut, data_mem, crashed, sim, hist >>

\* Bench cycles in which the DUT reads an instruction or stores a 0.
PushInstructionCycle == InstructionCycle(ReadRequests(1, {0}), MaxPushCalls)

PushDataCycle ==
    DataCycle([read : ReadRequests(0, {0}), write : WriteRequests(1, Word, {0})],
              MaxPushCalls)

NextPush ==
    \/ PushData
    \/ PushInstruction
    \/ IndexWriteData
    \/ IndexWriteInstruction
    \/ LoadInstruction
    \/ PushInstructionCycle
    \/ PushDataCycle

SpecPush == InitPush /\ [][NextPush]_vars

\* ------------------------------------------------ claims: the push pointer

\* One step of the test: a push moves its memory's pointer by one, the k-th
\* push stores its word at address k - 1, and no other step moves a pointer.
C18_Step ==
    /\ bench'.last = "push_data" =>
          /\ data_mem'.stack_ptr = data_mem.stack_ptr + 1
          /\ data_mem'.stack_ptr = bench'.pushed_data
          /\ MapGet(data_mem'.memory, bench'.pushed_data - 1) = bench'.value
    /\ bench'.last = "push_instruction" =>
          /\ instruction_mem'.stack_ptr = instruction_mem.stack_ptr + 1
          /\ instruction_mem'.stack_ptr = bench'.pushed_inst
          /\ MapGet(instruction_mem'.memory, bench'.pushed_inst - 1) = bench'.value
    /\ bench'.last # "push_data" => data_mem'.stack_ptr = data_mem.stack_ptr
    /\ bench'.last # "push_instruction" =>
          instruction_mem'.stack_ptr = instruction_mem.stack_ptr

\* C18: the push pointer is advanced only by push_data / push_instruction, by
\* exactly 1 per call, never by operator[] writes, load_instruction or
\* process(); the k-th push writes its value at address k - 1 whatever was
\* written directly or by the DUT in between.
C18_PushPointer == [][C18_Step]_vars

\* C18 happens: a second push_data came after direct writes and a DUT store.
C18_Witness ==
    /\ ~crashed
    /\ bench.last = "push_data"
    /\ bench.pushed_data = 2
    /\ bench.writes >= 1
    /\ bench.written_data # {}
    /\ DOMAIN data_mem.memory # {0, 1}
    /\ data_mem.memory[1] = bench.value


\* ------------------------------------------------------------- str_to_reg

\* std::from_chars(first, last, value) into an int32_t in base 10: an optional
\* minus sign, then the longest run of digits.
from_chars_decimal(range) ==
    LET negative == range # << >> /\ range[1] = "-"
        digits == IF negative THEN Tail(range) ELSE range
        n == DigitPrefix(digits, 10)
        v == DigitsValue(SubSeq(digits, 1, n), 10)
        value == IF negative THEN - v ELSE v
    IN  IF n = 0 THEN [ec |-> "invalid_argument", ptr |-> 0, result |-> 0]
        ELSE IF value < INT_MIN \/ value > INT_MAX
        THEN [ec |-> "result_out_of_range", ptr |-> n, result |-> 0]
        ELSE [ec |-> "", ptr |-> IF negative THEN n + 1 ELSE n, result |-> value]

\* What str_to_reg returns: a RegisterData or an error.
RegValue(register_data) == [ok |-> TRUE, value |-> register_data, error |-> ""]

RegError(error) == [ok |-> FALSE, value |-> RegisterData("", 0), error |-> error]

\* str_to_reg(str).
str_to_reg(str) ==
    LET parsed == from_chars_decimal(SubSeq(str, 2, Len(str)))
    IN  IF Len(str) < 2 THEN RegError("Invalid register name")
        ELSE IF str[1] \notin {"x", "s"}
        THEN IF str = << "p", "c" >> THEN RegValue(RegisterData("PC", 0))
             ELSE RegError("Invalid register name")
        ELSE IF parsed.ec # "" THEN RegError("Failed to parse register number")
        ELSE RegValue(RegisterData(IF str[1] = "x" THEN "VECTOR" ELSE "SCALAR",
                                   parsed.result))

\* The names str_to_reg is called with.
NameAlphabet == {"x", "s", "p", "c", "-", "0", "1", "9"}

Names == UNION { [1 .. n -> NameAlphabet] : n \in 0 .. MaxName }

InitReg ==
    /\ dut = FreshDut
    /\ fetcher = FetcherIdle
    /\ instruction_mem = make_instruction_memory
    /\ data_mem = make_data_memory
    /\ crashed = FALSE
    /\ bench = BenchIdle
    /\ sim = SimIdle
    /\ hist = NoHistory
    /\ num = NumIdle
    /\ line = LineIdle
    /\ rf = RegFileIdle
    /\ reg \in { [pc |-> "call", str |-> s] : s \in Names }

\* str_to_reg(str).
CallStrToReg ==
    /\ reg.pc = "call"
    /\ reg' = [pc |-> "done", str |-> reg.str, result |-> str_to_reg(reg.str)]
    /\ UNCHANGED << fetcher, dut, instruction_mem, data_mem, crashed, bench, sim, hist, num, line, rf >>

NextReg == CallStrToReg

SpecReg == InitReg /\ [][NextReg]_vars

\* ------------------------------------------------------ claims: str_to_reg

\* C19: a RegisterData that str_to_reg returns with type Vector or Scalar has
\* a register_number in 0 .. MaxRegister, and one returned with type PC has
\* register_number 0; a name with a number outside that range is refused.
C19_RegisterRange ==
    (reg.pc = "done" /\ reg.result.ok) =>
        /\ reg.result.value.type \in {"VECTOR", "SCALAR"} =>
              /\ 0 <= reg.result.value.register_number
              /\ reg.result.value.register_number <= MaxRegister
        /\ reg.result.value.type = "PC" => reg.result.value.register_number = 0


\* --------------------------------------------------------------- reg_file

Threads == 0 .. THREADS_PER_WARP - 1

RegIndices == 0 .. MaxRd

data_t == 0 .. 2 ^ DATA_WIDTH - 1

\* thread_ids[i] = warp_id * THREADS_PER_WARP + i, in a data_t.
thread_ids(warp_id) ==
    [i \in Threads |-> (warp_id * THREADS_PER_WARP + i) % 2 ^ DATA_WIDTH]

\* A posedge of clk that writes whatever decoded_rd_address is.
posedge_clk_unguarded(registers, in) ==
    IF in.reset
    THEN [i \in Threads |->
            [j \in RegIndices |->
                IF j = ZERO_REG THEN 0
                ELSE IF j = THREAD_ID_REG THEN thread_ids(in.warp_id)[i]
                ELSE IF j = BLOCK_ID_REG THEN in.block_id
                ELSE IF j = BLOCK_SIZE_REG THEN in.block_size
                ELSE 0]]
    ELSE IF in.enable /\ in.decoded_reg_write_enable
    THEN [i \in Threads |->
            IF i \in in.thread_enable /\ in.decoded_reg_input_mux \in {0, 1, 2}
            THEN [registers[i] EXCEPT ![in.decoded_rd_address] =
                     IF in.decoded_reg_input_mux = 0 THEN in.alu_out[i]
                     ELSE IF in.decoded_reg_input_mux = 1 THEN in.lsu_out[i]
                     ELSE in.decoded_immediate]
            ELSE registers[i]]
    ELSE registers

\* A posedge of clk that writes every thread, whatever thread_enable is.
posedge_clk_unmasked(registers, in) ==
    IF in.reset
    THEN [i \in Threads |->
            [j \in RegIndices |->
                IF j = ZERO_REG THEN 0
                ELSE IF j = THREAD_ID_REG THEN thread_ids(in.warp_id)[i]
                ELSE IF j = BLOCK_ID_REG THEN in.block_id
                ELSE IF j = BLOCK_SIZE_REG THEN in.block_size
                ELSE 0]]
    ELSE IF in.enable /\ in.decoded_reg_write_enable
    THEN [i \in Threads |->
            IF /\ in.decoded_rd_address >= 4
               /\ in.decoded_reg_input_mux \in {0, 1, 2}
            THEN [registers[i] EXCEPT ![in.decoded_rd_address] =
                     IF in.decoded_reg_input_mux = 0 THEN in.alu_out[i]
                     ELSE IF in.decoded_reg_input_mux = 1 THEN in.lsu_out[i]
                     ELSE in.decoded_immediate]
            ELSE registers[i]]
    ELSE registers

\* always @(posedge clk): the registers after the edge, given the inputs.
posedge_clk(registers, in) ==
    IF in.reset
    THEN [i \in Threads |->
            [j \in RegIndices |->
                IF j = ZERO_REG THEN 0
                ELSE IF j = THREAD_ID_REG THEN thread_ids(in.warp_id)[i]
                ELSE IF j = BLOCK_ID_REG THEN in.block_id
                ELSE IF j = BLOCK_SIZE_REG THEN in.block_size
                ELSE 0]]
    ELSE IF in.enable /\ in.decoded_reg_write_enable
    THEN [i \in Threads |->
            IF /\ i \in in.thread_enable
               /\ in.decoded_rd_address >= 4
               /\ in.decoded_reg_input_mux \in {0, 1, 2}
            THEN [registers[i] EXCEPT ![in.decoded_rd_address] =
                     IF in.decoded_reg_input_mux = 0 THEN in.alu_out[i]
                     ELSE IF in.decoded_reg_input_mux = 1 THEN in.lsu_out[i]
                     ELSE in.decoded_immediate]
            ELSE registers[i]]
    ELSE registers

\* always_comb: the rs1 and rs2 outputs, given the registers and the inputs.
read_registers(registers, in) ==
    [ rs1 |-> [i \in Threads |->
                 IF i \in in.thread_enable
                 THEN registers[i][in.decoded_rs1_address] ELSE 0],
      rs2 |-> [i \in Threads |->
                 IF i \in in.thread_enable
                 THEN registers[i][in.decoded_rs2_address] ELSE 0] ]

\* The inputs at a reset edge and at another edge.  The ALU drives 1, the LSU
\* 2 and the decoder the largest immediate, so that the mux shows.
ResetInputs ==
    [ reset : {TRUE}, warp_id : data_t, block_id : {0, 2 ^ DATA_WIDTH - 1},
      block_size : {1, 2} ]

ClkInputs ==
    [ reset : {FALSE}, enable : BOOLEAN, decoded_reg_write_enable : BOOLEAN,
      thread_enable : SUBSET Threads,
      decoded_reg_input_mux : 0 .. 3,
      decoded_rd_address : RegIndices,
      decoded_rs1_address : {MaxRd},
      decoded_rs2_address : {THREAD_ID_REG},
      decoded_immediate : {2 ^ DATA_WIDTH - 1},
      alu_out : {[i \in Threads |-> 1]},
      lsu_out : {[i \in Threads |-> 2]} ]

\* The module at power-on: every register holds the same unknown word.
InitRegFile ==
    /\ dut = FreshDut
    /\ fetcher = FetcherIdle
    /\ instruction_mem = make_instruction_memory
    /\ data_mem = make_data_memory
    /\ crashed = FALSE
    /\ bench = BenchIdle
    /\ sim = SimIdle
    /\ hist = NoHistory
    /\ num = NumIdle
    /\ line = LineIdle
    /\ reg = RegIdle
    /\ \E x \in data_t :
          rf = [ pc |-> "run",
                 registers |-> [i \in Threads |-> [j \in RegIndices |-> x]],
                 was_reset |-> FALSE,
                 sampled |-> [warp_id |-> 0, block_id |-> 0, block_size |-> 0],
                 last |-> "none", rd |-> 0, attempt |-> FALSE ]

\* A posedge of clk with reset high.  sampled, last, rd and attempt record the
\* inputs of the edge (observation only).
PosedgeReset ==
    /\ rf.pc = "run"
    /\ \E in \in ResetInputs :
          rf' = [rf EXCEPT !.registers = posedge_clk(rf.registers, in),
                           !.was_reset = TRUE,
                           !.sampled = [warp_id |-> in.warp_id,
                                        block_id |-> in.block_id,
                                        block_size |-> in.block_size],
                           !.last = "reset", !.rd = 0, !.attempt = FALSE]
    /\ UNCHANGED << fetcher, dut, instruction_mem, data_mem, crashed, bench, sim, hist, num, line, reg >>

\* A posedge of clk with reset low.
PosedgeClk ==
    /\ rf.pc = "run"
    /\ \E in \in ClkInputs :
          rf' = [rf EXCEPT !.registers = posedge_clk(rf.registers, in),
                           !.last = "clk", !.rd = in.decoded_rd_address,
                           !.attempt = /\ in.enable
                                       /\ in.decoded_reg_write_enable
                                       /\ in.thread_enable # {}
                                       /\ in.decoded_reg_input_mux \in {0, 1, 2}]
    /\ UNCHANGED << fetcher, dut, instruction_mem, data_mem, crashed, bench, sim, hist, num, line, reg >>

NextRegFile ==
    \/ PosedgeReset
    \/ PosedgeClk

SpecRegFile == InitRegFile /\ [][NextRegFile]_vars

\* -------------------------------------------------------- claims: reg_file

\* Registers 0..3 of every thread hold what the last reset gave them.
C20_Reserved ==
    (rf.pc = "run" /\ rf.was_reset) =>
        \A i \in Threads :
            /\ rf.registers[i][ZERO_REG] = 0
            /\ rf.registers[i][THREAD_ID_REG] =
                  (rf.sampled.warp_id * THREADS_PER_WARP + i) % 2 ^ DATA_WIDTH
            /\ rf.registers[i][BLOCK_ID_REG] = rf.sampled.block_id
            /\ rf.registers[i][BLOCK_SIZE_REG] = rf.sampled.block_size

\* An edge without reset whose decoded_rd_address is below 4 changes no register.
C20_Step ==
    (rf'.last = "clk" /\ rf'.rd < 4) => rf'.registers = rf.registers

\* C20: registers 0..3 of every thread are read-only: after reset they hold 0,
\* warp_id * THREADS_PER_WARP + i (as a data_t), block_id and block_size as
\* sampled at the reset, and they still do after any edges without reset,
\* whatever the write enable, mask, mux and rd; a write cycle with
\* decoded_rd_address < 4 changes no register of any thread.
C20_ReadOnly == [] C20_Reserved /\ [][C20_Step]_vars

\* C20 happens: after a reset with warp_id above 0, a write to a reserved
\* register was attempted, a register above them having been written before.
C20_Witness ==
    /\ rf.pc = "run"
    /\ rf.was_reset
    /\ rf.sampled.warp_id > 0
    /\ rf.last = "clk"
    /\ rf.attempt
    /\ rf.rd = THREAD_ID_REG
    /\ \E i \in Threads : rf.registers[i][4] # 0


\* ------------------------------------------- claims: data memory contents

\* The channels whose write request, as the DUT d presents it, names address a.
WritersIn(d, a) ==
    {i \in Channels : /\ get_bit(d.data_mem_write_valid, i)
                      /\ d.data_mem_write_address[i] = a}

\* One step of a test and what C21 says of the data memory's value at every
\* in-range address: a serviced cycle leaves the data of the highest writing
\* channel, or the value before it when no channel wrote the address; a
\* push_data changes the address of the push pointer only; an instruction
\* cycle changes nothing.
C21_Step ==
    ~crashed' =>
        \A a \in {x \in Word : x < MAX_SIZE} :
            /\ (bench'.calls = bench.calls + 1 /\ bench'.last = "data_mem") =>
                  MapGet(data_mem'.memory, a) =
                      IF WritersIn(dut', a) # {}
                      THEN dut'.data_mem_write_data[Highest(WritersIn(dut', a))]
                      ELSE MapGet(data_mem.memory, a)
            /\ (bench'.calls = bench.calls + 1 /\ bench'.last = "instruction_mem") =>
                  MapGet(data_mem'.memory, a) = MapGet(data_mem.memory, a)
            /\ (bench'.preloads = bench.preloads + 1 /\ a # data_mem.stack_ptr) =>
                  MapGet(data_mem'.memory, a) = MapGet(data_mem.memory, a)

C22_BindingsKept ==
    ~crashed =>
        /\ \A i \in Channels : data_mem.data_mem_read_data[i] = i
        /\ bench.last = "data_mem" =>
              \A i \in Channels :
                  (/\ get_bit(dut.data_mem_read_valid, i)
                   /\ dut.data_mem_read_address[i] < MAX_SIZE)
                  => dut.data_mem_read_data[i] =
                         MapGet(data_mem.memory, dut.data_mem_read_address[i])


\* ---------------------------------------------------------------- fetcher

\* The registers of the fetcher module.
FetcherRegs(fetcher_state, valid, address, instruction) ==
    [ fetcher_state |-> fetcher_state,
      instruction_mem_read_valid |-> valid,
      instruction_mem_read_address |-> address,
      instruction |-> instruction ]

\* A posedge that leaves instruction_mem_read_valid high on reaching DONE.
fetcher_posedge_keep_valid(f, in) ==
    IF in.reset THEN FetcherRegs("IDLE", 0, 0, 0)
    ELSE IF f.fetcher_state = "IDLE"
    THEN IF in.warp_state = "FETCH"
         THEN [f EXCEPT !.fetcher_state = "FETCHING",
                        !.instruction_mem_read_valid = 1,
                        !.instruction_mem_read_address = in.pc]
         ELSE f
    ELSE IF f.fetcher_state = "FETCHING"
    THEN IF in.instruction_mem_read_ready
         THEN [f EXCEPT !.fetcher_state = "DONE",
                        !.instruction = in.instruction_mem_read_data]
         ELSE f
    ELSE IF f.fetcher_state = "DONE"
    THEN IF in.warp_state = "DECODE" THEN [f EXCEPT !.fetcher_state = "IDLE"] ELSE f
    ELSE f

\* A posedge that follows pc with the address while it waits in FETCHING.
fetcher_posedge_track_pc(f, in) ==
    IF in.reset THEN FetcherRegs("IDLE", 0, 0, 0)
    ELSE IF f.fetcher_state = "IDLE"
    THEN IF in.warp_state = "FETCH"
         THEN [f EXCEPT !.fetcher_state = "FETCHING",
                        !.instruction_mem_read_valid = 1,
                        !.instruction_mem_read_address = in.pc]
         ELSE f
    ELSE IF f.fetcher_state = "FETCHING"
    THEN IF in.instruction_mem_read_ready
         THEN [f EXCEPT !.fetcher_state = "DONE",
                        !.instruction_mem_read_valid = 0,
                        !.instruction = in.instruction_mem_read_data]
         ELSE [f EXCEPT !.instruction_mem_read_address = in.pc]
    ELSE IF f.fetcher_state = "DONE"
    THEN IF in.warp_state = "DECODE" THEN [f EXCEPT !.fetcher_state = "IDLE"] ELSE f
    ELSE f

\* A posedge that starts the next fetch straight from DONE.
fetcher_posedge_refetch(f, in) ==
    IF in.reset THEN FetcherRegs("IDLE", 0, 0, 0)
    ELSE IF f.fetcher_state = "IDLE"
    THEN IF in.warp_state = "FETCH"
         THEN [f EXCEPT !.fetcher_state = "FETCHING",
                        !.instruction_mem_read_valid = 1,
                        !.instruction_mem_read_address = in.pc]
         ELSE f
    ELSE IF f.fetcher_state = "FETCHING"
    THEN IF in.instruction_mem_read_ready
         THEN [f EXCEPT !.fetcher_state = "DONE",
                        !.instruction_mem_read_valid = 0,
                        !.instruction = in.instruction_mem_read_data]
         ELSE f
    ELSE IF f.fetcher_state = "DONE"
    THEN IF in.warp_state = "DECODE" THEN [f EXCEPT !.fetcher_state = "IDLE"]
         ELSE IF in.warp_state = "FETCH"
         THEN [f EXCEPT !.fetcher_state = "FETCHING",
                        !.instruction_mem_read_valid = 1,
                        !.instruction_mem_read_address = in.pc]
         ELSE f
    ELSE f

\* A posedge that passes instruction_mem_read_data on while it waits.
fetcher_posedge_transparent(f, in) ==
    IF in.reset THEN FetcherRegs("IDLE", 0, 0, 0)
    ELSE IF f.fetcher_state = "IDLE"
    THEN IF in.warp_state = "FETCH"
         THEN [f EXCEPT !.fetcher_state = "FETCHING",
                        !.instruction_mem_read_valid = 1,
                        !.instruction_mem_read_address = in.pc]
         ELSE f
    ELSE IF f.fetcher_state = "FETCHING"
    THEN IF in.instruction_mem_read_ready
         THEN [f EXCEPT !.fetcher_state = "DONE",
                        !.instruction_mem_read_valid = 0,
                        !.instruction = in.instruction_mem_read_data]
         ELSE [f EXCEPT !.instruction = in.instruction_mem_read_data]
    ELSE IF f.fetcher_state = "DONE"
    THEN IF in.warp_state = "DECODE" THEN [f EXCEPT !.fetcher_state = "IDLE"] ELSE f
    ELSE f

\* always @(posedge clk) of the fetcher: its registers after the edge.  A
\* fetcher_state that is none of the three takes the default branch.
fetcher_posedge(f, in) ==
    IF in.reset THEN FetcherRegs("IDLE", 0, 0, 0)
    ELSE IF f.fetcher_state = "IDLE"
    THEN IF in.warp_state = "FETCH"
         THEN [f EXCEPT !.fetcher_state = "FETCHING",
                        !.instruction_mem_read_valid = 1,
                        !.instruction_mem_read_address = in.pc]
         ELSE f
    ELSE IF f.fetcher_state = "FETCHING"
    THEN IF in.instruction_mem_read_ready
         THEN [f EXCEPT !.fetcher_state = "DONE",
                        !.instruction_mem_read_valid = 0,
                        !.instruction = in.instruction_mem_read_data]
         ELSE f
    ELSE IF f.fetcher_state = "DONE"
    THEN IF in.warp_state = "DECODE" THEN [f EXCEPT !.fetcher_state = "IDLE"] ELSE f
    ELSE f

\* The inputs of the module at an edge: two addresses and two data words.
FetcherInputs ==
    [ reset : BOOLEAN,
      warp_state : {"FETCH", "DECODE", "OTHER"},
      pc : {0, MaxWord},
      instruction_mem_read_ready : BOOLEAN,
      instruction_mem_read_data : {0, MaxWord} ]

\* The registers at power-on hold anything.
PowerOn ==
    { FetcherRegs(s, v, a, i) :
        s \in {"IDLE", "FETCHING", "DONE", "INVALID"}, v \in {0, 1},
        a \in {0, MaxWord}, i \in {0, MaxWord} }

\* The module alone, driven with any inputs.  was_reset, from and in record
\* whether a reset edge has been, the state before the last edge and the
\* inputs of the last edge (observation only).
InitFetcher ==
    /\ dut = FreshDut
    /\ instruction_mem = make_instruction_memory
    /\ data_mem = make_data_memory
    /\ crashed = FALSE
    /\ bench = BenchIdle
    /\ sim = SimIdle
    /\ hist = NoHistory
    /\ num = NumIdle
    /\ line = LineIdle
    /\ reg = RegIdle
    /\ rf = RegFileIdle
    /\ \E f \in PowerOn, in \in {x \in FetcherInputs : ~x.reset /\ x.pc = 0} :
          fetcher = [pc |-> "run", f |-> f, was_reset |-> FALSE, from |-> f, in |-> in]

\* A posedge of clk with reset high.
FetcherReset ==
    /\ fetcher.pc = "run"
    /\ \E in \in {x \in FetcherInputs : x.reset} :
          fetcher' = [fetcher EXCEPT !.f = fetcher_posedge(fetcher.f, in),
                                     !.was_reset = TRUE,
                                     !.from = fetcher.f, !.in = in]
    /\ UNCHANGED << dut, instruction_mem, data_mem, crashed, bench, sim, hist, num, line, reg, rf >>

\* A posedge of clk with reset low.
FetcherPosedge ==
    /\ fetcher.pc = "run"
    /\ \E in \in {x \in FetcherInputs : ~x.reset} :
          fetcher' = [fetcher EXCEPT !.f = fetcher_posedge(fetcher.f, in),
                                     !.from = fetcher.f, !.in = in]
    /\ UNCHANGED << dut, instruction_mem, data_mem, crashed, bench, sim, hist, num, line, reg, rf >>

NextFetcher ==
    \/ FetcherReset
    \/ FetcherPosedge

SpecFetcher == InitFetcher /\ [][NextFetcher]_vars


\* --------------------------------------------------------- claims: fetcher

\* Once reset, the fetcher asks for a word exactly while it is FETCHING.
C24_Valid ==
    (fetcher.pc = "run" /\ fetcher.was_reset) =>
        (fetcher.f.instruction_mem_read_valid = 1
            <=> fetcher.f.fetcher_state = "FETCHING")

\* The address is the pc of the IDLE -> FETCHING edge and stays while FETCHING.
C24_Step ==
    fetcher.was_reset =>
        /\ (fetcher.f.fetcher_state = "FETCHING"
                /\ fetcher'.f.fetcher_state = "FETCHING") =>
              fetcher'.f.instruction_mem_read_address
                  = fetcher.f.instruction_mem_read_address
        /\ (fetcher.f.fetcher_state = "IDLE"
                /\ fetcher'.f.fetcher_state = "FETCHING") =>
              fetcher'.f.instruction_mem_read_address = fetcher'.in.pc

\* C24: in every fetcher state reachable after reset,
\* instruction_mem_read_valid is 1 iff fetcher_state is FETCHING, and
\* instruction_mem_read_address does not change while FETCHING (it is the pc
\* sampled on the IDLE -> FETCHING edge), whatever pc and warp_state do.
C24_ValidAndAddress == [] C24_Valid /\ [][C24_Step]_vars

\* C24 happens: the fetcher waited in FETCHING while pc moved off the address.
C24_Witness ==
    /\ fetcher.pc = "run"
    /\ fetcher.was_reset
    /\ fetcher.from.fetcher_state = "FETCHING"
    /\ fetcher.f.fetcher_state = "FETCHING"
    /\ fetcher.in.pc # fetcher.f.instruction_mem_read_address
    /\ fetcher.in.warp_state = "DECODE"
    /\ fetcher.f.instruction_mem_read_valid = 1

\* One edge after reset and what C25 says of it.
C25_Step ==
    /\ (fetcher.was_reset /\ ~fetcher'.in.reset
            /\ fetcher'.f.fetcher_state # fetcher.f.fetcher_state) =>
          \/ /\ fetcher.f.fetcher_state = "IDLE"
             /\ fetcher'.f.fetcher_state = "FETCHING"
             /\ fetcher'.in.warp_state = "FETCH"
          \/ /\ fetcher.f.fetcher_state = "FETCHING"
             /\ fetcher'.f.fetcher_state = "DONE"
             /\ fetcher'.in.instruction_mem_read_ready
          \/ /\ fetcher.f.fetcher_state = "DONE"
             /\ fetcher'.f.fetcher_state = "IDLE"
             /\ fetcher'.in.warp_state = "DECODE"
    /\ fetcher'.in.reset => fetcher'.f = FetcherRegs("IDLE", 0, 0, 0)

\* C25: outside reset the fetcher's only transitions are IDLE -> FETCHING
\* (only when warp_state is FETCH), FETCHING -> DONE (only when
\* instruction_mem_read_ready is 1) and DONE -> IDLE (only when warp_state is
\* DECODE); a reset from any state gives IDLE with read_valid 0,
\* read_address 0 and instruction 0.
C25_Transitions == [][C25_Step]_vars

\* C25 happens: after a fetch, DONE went back to IDLE on DECODE.
C25_Witness ==
    /\ fetcher.pc = "run"
    /\ fetcher.was_reset
    /\ ~fetcher.in.reset
    /\ fetcher.from.fetcher_state = "DONE"
    /\ fetcher.f.fetcher_state = "IDLE"
    /\ fetcher.in.warp_state = "DECODE"
    /\ fetcher.f.instruction # 0

\* One edge and what C26 says of it.
C26_Step ==
    ~fetcher'.in.reset =>
        /\ fetcher'.f.instruction # fetcher.f.instruction =>
              /\ fetcher.f.fetcher_state = "FETCHING"
              /\ fetcher'.f.fetcher_state = "DONE"
        /\ (fetcher.f.fetcher_state = "FETCHING"
                /\ fetcher'.f.fetcher_state = "DONE") =>
              fetcher'.f.instruction = fetcher'.in.instruction_mem_read_data

\* C26: the instruction output changes only on the FETCHING -> DONE edge (and
\* on reset), where it takes instruction_mem_read_data of that edge; it is
\* held in DONE, in IDLE and while FETCHING waits with read_ready low,
\* whatever instruction_mem_read_data does.
C26_InstructionHeld == [][C26_Step]_vars

\* C26 happens: FETCHING waited with read_ready low and kept an instruction
\* fetched earlier while instruction_mem_read_data showed another word.
C26_Witness ==
    /\ fetcher.pc = "run"
    /\ fetcher.was_reset
    /\ fetcher.from.fetcher_state = "FETCHING"
    /\ fetcher.f.fetcher_state = "FETCHING"
    /\ ~fetcher.in.instruction_mem_read_ready
    /\ fetcher.f.instruction # 0
    /\ fetcher.in.instruction_mem_read_data # fetcher.f.instruction


\* ------------------------------- fetcher and instruction memory, simulate

\* The DUT signals of the channel the fetcher is wired to, as the fetcher's
\* registers drive them; the other channels stay idle.
DriveFetcher(d, FetcherChannel, f) ==
    [d EXCEPT !.instruction_mem_read_valid =
                  set_bit(@, FetcherChannel, f.instruction_mem_read_valid = 1),
              !.instruction_mem_read_address[FetcherChannel] =
                  f.instruction_mem_read_address]

\* A test pushes up to MaxPreload instructions and calls simulate(); the DUT
\* is the fetcher in its reset state, reset stays low.  log records, for each
\* rising edge, the registers after it and the read_ready seen at it
\* (observation only).
InitFetch ==
    /\ dut = FreshDut
    /\ \E n \in 0 .. MaxPreload, instruction \in 1 .. MaxWord :
          instruction_mem =
              IF n = 0 THEN make_instruction_memory
              ELSE push_instruction(make_instruction_memory, instruction)
    /\ data_mem = make_data_memory
    /\ crashed = FALSE
    /\ bench = BenchIdle
    /\ sim = SimIdle
    /\ hist = NoHistory
    /\ num = NumIdle
    /\ line = LineIdle
    /\ reg = RegIdle
    /\ rf = RegFileIdle
    /\ \E channel \in Channels :
          fetcher = [ pc |-> "process", channel |-> channel,
                      f |-> FetcherRegs("IDLE", 0, 0, 0), log |-> << >> ]

\* The loop body of simulate() up to the tick: instruction_mem.process() and
\* data_mem.process().
FetchProcess ==
    /\ fetcher.pc = "process"
    /\ Len(fetcher.log) < MaxFetchCycles
    /\ LET out == InstructionMemory_process(instruction_mem, dut)
       IN  /\ instruction_mem' = out.instruction_mem
           /\ \E res \in DataMemory_process(data_mem, out.dut) :
                 /\ data_mem' = res.data_mem
                 /\ dut' = res.dut
                 /\ crashed' = res.crashed
    /\ fetcher' = [fetcher EXCEPT !.pc = "tick"]
    /\ UNCHANGED << bench, sim, hist, num, line, reg, rf >>

\* tick(top): the rising edge of clk, with reset low and the rest of the GPU
\* driving any warp_state and pc.
FetchTick ==
    /\ fetcher.pc = "tick"
    /\ \E warp_state \in {"FETCH", "DECODE", "OTHER"}, pc \in Word :
          LET in == [ reset |-> FALSE, warp_state |-> warp_state, pc |-> pc,
                      instruction_mem_read_ready |->
                          get_bit(dut.instruction_mem_read_ready, fetcher.channel),
                      instruction_mem_read_data |->
                          dut.instruction_mem_read_data[fetcher.channel] ]
              f  == fetcher_posedge(fetcher.f, in)
          IN  /\ fetcher' = [ pc |-> "process", channel |-> fetcher.channel, f |-> f,
                              log |-> Append(fetcher.log,
                                         [ f |-> f,
                                           ready |-> in.instruction_mem_read_ready ]) ]
              /\ dut' = DriveFetcher(dut, fetcher.channel, f)
    /\ UNCHANGED << instruction_mem, data_mem, crashed, bench, sim, hist, num, line, reg, rf >>

NextFetch ==
    \/ FetchProcess
    \/ FetchTick

SpecFetch == InitFetch /\ [][NextFetch]_vars

\* ------------------------------------- claims: fetcher with the memory

\* The fetcher's state before rising edge k of the run.
StateBefore(k) ==
    IF k = 1 THEN "IDLE" ELSE fetcher.log[k - 1].f.fetcher_state

\* The rising edges at which the fetcher moved IDLE -> FETCHING.
FetchEdges ==
    { k \in 1 .. Len(fetcher.log) :
        StateBefore(k) = "IDLE" /\ fetcher.log[k].f.fetcher_state = "FETCHING" }

\* C23: under the simulate loop, when the fetcher moves IDLE -> FETCHING at a
\* rising edge with an in-range pc = a, it is DONE at the very next rising
\* edge with instruction = inst_mem[a] (0 if a was never loaded), and at the
\* edge after that read_ready of its channel is low again; it never latches
\* the data of an earlier request.
C23_FetchTiming ==
    fetcher.pc \in {"process", "tick"} =>
        \A k \in FetchEdges :
            LET a == fetcher.log[k].f.instruction_mem_read_address
            IN  a < MAX_SIZE =>
                /\ k + 1 <= Len(fetcher.log) =>
                      /\ fetcher.log[k + 1].f.fetcher_state = "DONE"
                      /\ fetcher.log[k + 1].f.instruction
                            = MapGet(instruction_mem.memory, a)
                /\ k + 2 <= Len(fetcher.log) => ~fetcher.log[k + 2].ready

\* C23 happens: two fetches of different addresses gave different
\* instructions, and read_ready was low two edges after the second began.
C23_Witness ==
    /\ fetcher.pc \in {"process", "tick"}
    /\ \E k \in FetchEdges, j \in FetchEdges :
          /\ k < j
          /\ j + 2 <= Len(fetcher.log)
          /\ fetcher.log[k].f.instruction_mem_read_address < MAX_SIZE
          /\ fetcher.log[j].f.instruction_mem_read_address < MAX_SIZE
          /\ fetcher.log[k + 1].f.instruction # fetcher.log[j + 1].f.instruction
          /\ ~fetcher.log[j + 2].ready


\* ------------------------------------------- reg_file: the execution mask

\* The module at power-on, clocked for up to MaxEdges rising edges.  in, out
\* and last record the inputs of the last edge and the rs1 and rs2 outputs
\* that follow it (observation only).
InitRegMask ==
    /\ dut = FreshDut
    /\ fetcher = FetcherIdle
    /\ instruction_mem = make_instruction_memory
    /\ data_mem = make_data_memory
    /\ crashed = FALSE
    /\ bench = BenchIdle
    /\ sim = SimIdle
    /\ hist = NoHistory
    /\ num = NumIdle
    /\ line = LineIdle
    /\ reg = RegIdle
    /\ \E x \in data_t :
          rf = [ pc |-> "mask",
                 registers |-> [i \in Threads |-> [j \in RegIndices |-> x]],
                 edges |-> 0, last |-> "none",
                 in |-> [reset |-> FALSE], out |-> [rs1 |-> << >>, rs2 |-> << >>] ]

\* A posedge of clk with reset high.
MaskReset ==
    /\ rf.pc = "mask"
    /\ rf.edges < MaxEdges
    /\ \E in \in ResetInputs :
          rf' = [rf EXCEPT !.registers = posedge_clk(rf.registers, in),
                           !.edges = @ + 1, !.last = "reset", !.in = in,
                           !.out = [rs1 |-> << >>, rs2 |-> << >>]]
    /\ UNCHANGED << fetcher, dut, instruction_mem, data_mem, crashed, bench, sim, hist, num, line, reg >>

\* A posedge of clk with reset low, and the outputs read after it.
MaskClk ==
    /\ rf.pc = "mask"
    /\ rf.edges < MaxEdges
    /\ \E in \in ClkInputs :
          LET registers == posedge_clk(rf.registers, in)
          IN  rf' = [rf EXCEPT !.registers = registers,
                               !.edges = @ + 1, !.last = "clk", !.in = in,
                               !.out = read_registers(registers, in)]
    /\ UNCHANGED << fetcher, dut, instruction_mem, data_mem, crashed, bench, sim, hist, num, line, reg >>

NextRegMask ==
    \/ MaskReset
    \/ MaskClk

SpecRegMask == InitRegMask /\ [][NextRegMask]_vars

\* ------------------------------------------- claims: the execution mask

\* Whether the edge with inputs in writes register r of thread i.
Writes(in, i, r) ==
    /\ in.enable
    /\ in.decoded_reg_write_enable
    /\ i \in in.thread_enable
    /\ r = in.decoded_rd_address
    /\ in.decoded_rd_address >= 4
    /\ in.decoded_reg_input_mux \in {0, 1, 2}

\* The value the mux selects for thread i.
Selected(in, i) ==
    IF in.decoded_reg_input_mux = 0 THEN in.alu_out[i]
    ELSE IF in.decoded_reg_input_mux = 1 THEN in.lsu_out[i]
    ELSE in.decoded_immediate

\* One edge without reset, as C27 describes it.
C27_Step ==
    (rf'.pc = "mask" /\ rf'.last = "clk") =>
        \A i \in Threads :
            /\ \A r \in RegIndices :
                  /\ rf'.registers[i][r] # rf.registers[i][r] => Writes(rf'.in, i, r)
                  /\ Writes(rf'.in, i, r) => rf'.registers[i][r] = Selected(rf'.in, i)
                  /\ r # rf'.in.decoded_rd_address =>
                        rf'.registers[i][r] = rf.registers[i][r]
            /\ i \notin rf'.in.thread_enable =>
                  /\ rf'.registers[i] = rf.registers[i]
                  /\ rf'.out.rs1[i] = 0
                  /\ rf'.out.rs2[i] = 0

\* C27: a clock edge without reset changes register r of thread i only if
\* enable, decoded_reg_write_enable and thread_enable[i] are all 1,
\* r = decoded_rd_address >= 4 and decoded_reg_input_mux is 00, 01 or 10, the
\* new value being alu_out[i], lsu_out[i] or decoded_immediate; every register
\* of a thread with thread_enable[i] = 0 and every register other than rd is
\* left unchanged, and a disabled thread's rs1 and rs2 outputs read as 0.
C27_ExecutionMask == [][C27_Step]_vars

\* C27 happens: a write cycle with one thread enabled and one disabled wrote
\* the enabled thread's rd, the disabled thread keeping a different non-zero
\* value there while its rs1 reads 0.
C27_Witness ==
    /\ rf.pc = "mask"
    /\ rf.last = "clk"
    /\ \E i \in Threads, j \in Threads :
          /\ Writes(rf.in, i, rf.in.decoded_rd_address)
          /\ j \notin rf.in.thread_enable
          /\ rf.in.decoded_rs1_address = rf.in.decoded_rd_address
          /\ rf.registers[i][rf.in.decoded_rd_address] = Selected(rf.in, i)
          /\ rf.registers[j][rf.in.decoded_rd_address] \notin {0, Selected(rf.in, i)}
          /\ rf.out.rs1[j] = 0
          /\ rf.out.rs1[i] = Selected(rf.in, i)

=============================================================================
